---- MODULE Spec2Model ----
(***************************************************************************)
(* State-machine model of the 2236 MXD terminal multiplexer card           *)
(* (IoCardTermMux) and of the parts of SerialPort / SerialTermSession it    *)
(* drives.  One record per UART channel mirrors m_term_t; the SerialPort    *)
(* reached through serial_port or through the session is the sub-record     *)
(* "port".  Handlers are pure operators on a channel record; the actions    *)
(* apply a whole handler to the card state.                                 *)
(*                                                                          *)
(* Scaling.  RX_FIFO_MAX is 2048 in the source and TX queue capacity 8192;  *)
(* the model keeps the source's formulas for the watermarks and the gate    *)
(* and runs them at a small capacity.  Virtual time is counted in ticks.    *)
(***************************************************************************)
EXTENDS Integers, Naturals, Sequences, FiniteSets, TLC

\* ------------------------------------------------------------------ sizes
MAX_TERMINALS == 4
Channels == 0..(MAX_TERMINALS - 1)

\* FIFO capacity (2048 in the source, scaled) and the watermarks derived from it
RX_FIFO_MAX == 4
RX_FIFO_XOFF_THRESHOLD == (RX_FIFO_MAX * 3) \div 4
RX_FIFO_XON_THRESHOLD == (RX_FIFO_MAX * 1) \div 4

\* TX queue capacity of a SerialPort (SerialConfig::txQueueSize, scaled)
TxQueueSize == 2

XON == 17
XOFF == 19
FlowBytes == {XON, XOFF}
DataBytes == {65, 66}
Bytes == DataBytes \cup FlowBytes

\* total number of bytes the terminals offer to the RX entry points
MaxRx == 5

\* the same budget where the transports come and go
MaxFlowRx == 4

\* SerialPort.h
MAX_RECONNECT_ATTEMPTS == 10
BASE_RECONNECT_DELAY_MS == 250

\* the cap of getReconnectDelayMs
RECONNECT_DELAY_CAP_MS == 10000

\* attempt counts getReconnectDelayMs is applied to
MaxProbe == 12

\* main_headless.cpp: seconds between two retries of the absent terminals
RETRY_INTERVAL_S == 30

\* data bytes the worker of a late-attached port reads
MaxRetryRx == 3

\* bytes waiting in the TX buffer, and bytes the worker dispatches, while a
\* close is studied
MaxCloseOut == 2
MaxCloseRx == 2
MaxReopen == 1

\* calls in one run of sendXOFF or sendXON
MaxRun == 3

\* bytes submitted to one port, bytes the kernel's output queue can hold,
\* bytes read from the device, while the TX path is studied
MaxSubmit == 3
MaxRoom == 2
MaxDevRx == 1

\* main loop (times in ms): the time slice, the cap on a wait, the period of
\* the statistics and of the retry, the limit of the catch-up loop
SliceDuration == 30
MaxWaitMs == 50
StatsPeriodMs == 30000
CatchupLimit == 10

\* iterations of the main loop followed, the time an iteration's work can
\* take, and what the scheduler reports (-1000: no timer; else ms until the
\* next one, negative when it is overdue)
MaxIter == 2
IdleTimes == {0, 20, 299, 300, 29980}
NoTimer == -1000
TimerReports == {NoTimer, -3, 7, 60}

\* times the web interface rewrites the INI file
MaxIni == 3

\* bytes the worker reads while a session is destroyed
MaxDtorRx == 2

\* data bytes the host strobes onto the output bus
StrobeBytes == {90, 165}

\* values the firmware writes to the ready/busy register
RbiBytes == {0, 85}

\* bytes the RX worker delivers while the two threads are interleaved
MaxRaceRx == 2

\* bytes the firmware gets accepted per channel while its history is kept
MaxTx == 3

\* longest batch handed to queueRxBytes
MaxBatch == 3

\* one character time in ticks of virtual time (TIMER_US(11e6 / 19200) in the
\* source, scaled) and the shorter delay the backpressure gate re-arms with
SERIAL_CHAR_DELAY == 2
TX_GATE_DELAY == 1

\* byte values the firmware writes to port 0x06
TxBytes == {65, 66}

\* outcomes of the two write(2) calls a sendByte can make: the direct write
\* (1 = written, -1 = EAGAIN, -2 = other error) and, after an enqueue, the
\* number of bytes the kernel takes from the TX buffer in flushTxBuffer
OsOutcomes == {<<1, 0>>, <<-1, 0>>, <<-1, 1>>, <<-2, 0>>}

VARIABLES
    m_num_terms,          \* number of terminals the card is configured for
    numTerminals,         \* number of terminals the terminal server is configured for
    m_uart_sel,           \* currently addressed uart
    m_interrupt_pending,  \* one of the uarts has an rx byte
    m_terms,              \* per terminal state, Channels -> record
    rx_in,                \* history: data bytes offered to each channel's RX entry
    rx_out,               \* history: values returned by reads of port 0x06, per channel
    rx_offered,           \* history: number of bytes offered to the RX entries
    fc_offered,           \* history: a flow-control byte was offered to an RX entry
    size_at_xoff,         \* history: FIFO size at the channel's latest sendXOFF
    timers,               \* the scheduler's pending timers, in insertion order
    since_write,          \* history: ticks since the channel's latest write to port 0x06
    since_start,          \* history: ticks since checkTxBuffer last started a timer
    tx_accepted,          \* history: bytes written to port 0x06 while tx_ready was true
    tx_handed,            \* history: bytes the timer callback handed to the transport
    tx_stable,            \* history: a session was bound while idle and has stayed active
    rxw,                  \* the port's RX worker thread inside serialRxByte
    emu,                  \* the emulator thread inside the IN_UART_DATA case
    bus,                  \* the card's 2200 bus latches (m_selected, m_io_offset, ...)
    dev_rdy,              \* the host CPU's device-ready line (setDevRdy)
    bus_op,               \* history: the last operation was one that recomputes ready/busy
    bus_rv,               \* history: the value the last 8080 IN returned
    obs_run,              \* history: progress through select, OBS, IN 1, IN 2, IN 1
    sp,                   \* one SerialPort: descriptor, RX worker thread, reconnect state
    node,                 \* environment: the port's device node exists
    probe,                \* getReconnectDelayMs applied to an attempt count
    loop,                 \* main(): seconds since lastRetryTime, sessions[0], place in the retry block
    dev_present,          \* environment: terminal 0's device node exists
    port_rx,              \* history: data bytes the worker of terminal 0's port has read
    fc_run,               \* history: the current run of sendXOFF or sendXON calls on a port
    closing,              \* SerialPort::close running against the port's RX worker
    txdev,                \* one port's TX path down to the OS device, with the capture tap
    mainloop,             \* main(): the cadence and deadline computation of one iteration
    web,                  \* the web configuration server's handler thread and the request flag
    shutdown,             \* main(): signals, the running flag, the post-loop cleanup
    dtor,                 \* ~SerialTermSession running against the port's RX worker
    termcfg               \* main(): one terminal's configuration, startup and retry pass

\* the histories of the TX path
txHist == <<tx_accepted, tx_handed, tx_stable>>

\* the two threads' positions and locals when the handlers run step by step
raceVars == <<rxw, emu>>

\* the 2200 bus side of the card
busVars == <<bus, dev_rdy, bus_op, bus_rv, obs_run>>

\* one SerialPort's connection state and its environment
reconnVars == <<sp, node, probe>>

\* the headless main loop's retry of absent terminals
retryVars == <<loop, dev_present, port_rx>>

\* the variables of the other parts of the program
\* the port's threads, the main loop and the web server
lateVars == <<closing, txdev, mainloop, web, shutdown, dtor, termcfg>>

\* the card's UART paths
coreVars == <<m_num_terms, numTerminals, m_uart_sel, m_interrupt_pending, m_terms,
              rx_in, rx_out, rx_offered, fc_offered, size_at_xoff,
              timers, since_write, since_start>>

\* the bus side, the reconnect path, the retry block and the raw flow calls
oldSide == <<raceVars, busVars, reconnVars, retryVars, fc_run>>

sideVars == <<raceVars, busVars, reconnVars, retryVars, fc_run, lateVars>>

\* what the handlers of the card's RX and TX paths never touch
extraVars == <<txHist, sideVars>>

vars == <<m_num_terms, numTerminals, m_uart_sel, m_interrupt_pending, m_terms,
          rx_in, rx_out, rx_offered, fc_offered, size_at_xoff,
          timers, since_write, since_start, txHist, raceVars, busVars, reconnVars,
          retryVars, fc_run, lateVars>>

\* ------------------------------------------------------------ SerialPort

NewPort == [open |-> TRUE, m_xoffSent |-> FALSE, m_outbuf |-> <<>>]
NoPort == [open |-> FALSE, m_xoffSent |-> FALSE, m_outbuf |-> <<>>]

\* SerialPort::flushTxBuffer, the kernel taking n bytes (0: EAGAIN or error)
FlushTxBuffer(t, n) ==
    IF ~t.port.open THEN t
    ELSE IF t.port.m_outbuf = <<>> THEN t
    ELSE LET k == IF n < Len(t.port.m_outbuf) THEN n ELSE Len(t.port.m_outbuf)
         IN [t EXCEPT !.port.m_outbuf = SubSeq(@, k + 1, Len(@))]

\* SerialPort::enqueueTx for one byte, followed by its immediate flush
EnqueueTx(t, b, n) ==
    IF ~t.port.open THEN t
    ELSE IF Len(t.port.m_outbuf) + 1 > TxQueueSize THEN t
    ELSE FlushTxBuffer([t EXCEPT !.port.m_outbuf = Append(@, b)], n)

\* SerialPort::sendByte; "sent" records the bytes an open port was asked to send
PortSendByte(t, b, os) ==
    IF ~t.port.open THEN t
    ELSE LET t1 == [t EXCEPT !.sent = Append(@, b)]
         IN IF os[1] = 1 THEN t1
            ELSE IF os[1] = -1 THEN EnqueueTx(t1, b, os[2])
            ELSE t1

\* variant: sendXOFF without the test of m_xoffSent
PortSendXOFF_Always(t, os) ==
    [PortSendByte(t, XOFF, os) EXCEPT !.port.m_xoffSent = TRUE]

\* SerialPort::sendXON
PortSendXON(t, os) ==
    IF t.port.m_xoffSent
    THEN [PortSendByte(t, XON, os) EXCEPT !.port.m_xoffSent = FALSE]
    ELSE t

\* SerialPort::sendXOFF
PortSendXOFF(t, os) ==
    IF ~t.port.m_xoffSent
    THEN [PortSendByte(t, XOFF, os) EXCEPT !.port.m_xoffSent = TRUE]
    ELSE t

\* ------------------------------------------------------ SerialTermSession

\* SerialTermSession::isActive
SessionIsActive(t) == t.port.open

\* SerialTermSession::mxdToTerm
SessionMxdToTerm(t, b, os) ==
    IF ~t.port.open THEN t ELSE PortSendByte(t, b, os)

\* ---------------------------------------------------- card, flow control

\* variant: the flag is cleared even when no transport takes the byte
SendXON_Blind(t, os) ==
    IF t.serial_port /\ t.port.open
    THEN [PortSendXON(t, os) EXCEPT !.xoff_sent = FALSE,
                                    !.xon_sent_count = @ + 1]
    ELSE IF t.session /\ SessionIsActive(t)
    THEN [SessionMxdToTerm(t, XON, os) EXCEPT !.xoff_sent = FALSE,
                                              !.xon_sent_count = @ + 1]
    ELSE [t EXCEPT !.xoff_sent = FALSE]

\* IoCardTermMux::sendXON
SendXON(t, os) ==
    IF t.serial_port /\ t.port.open
    THEN [PortSendXON(t, os) EXCEPT !.xoff_sent = FALSE,
                                    !.xon_sent_count = @ + 1]
    ELSE IF t.session /\ SessionIsActive(t)
    THEN [SessionMxdToTerm(t, XON, os) EXCEPT !.xoff_sent = FALSE,
                                              !.xon_sent_count = @ + 1]
    ELSE t

\* IoCardTermMux::sendXOFF; did_xoff marks that the handler passed through here
SendXOFF(t, os) ==
    IF t.serial_port /\ t.port.open
    THEN [PortSendXOFF(t, os) EXCEPT !.xoff_sent = TRUE,
                                     !.xoff_sent_count = @ + 1,
                                     !.did_xoff = TRUE]
    ELSE IF t.session /\ SessionIsActive(t)
    THEN [SessionMxdToTerm(t, XOFF, os) EXCEPT !.xoff_sent = TRUE,
                                               !.xoff_sent_count = @ + 1,
                                               !.did_xoff = TRUE]
    ELSE t

\* variant: XON only strictly below the low watermark
CheckAndSendFlowControl_StrictXon(t, os) ==
    IF Len(t.rx_fifo) >= RX_FIFO_XOFF_THRESHOLD /\ ~t.xoff_sent
    THEN SendXOFF(t, os)
    ELSE IF Len(t.rx_fifo) < RX_FIFO_XON_THRESHOLD /\ t.xoff_sent
    THEN SendXON(t, os)
    ELSE t

\* IoCardTermMux::checkAndSendFlowControl
CheckAndSendFlowControl(t, os) ==
    IF Len(t.rx_fifo) >= RX_FIFO_XOFF_THRESHOLD /\ ~t.xoff_sent
    THEN SendXOFF(t, os)
    ELSE IF Len(t.rx_fifo) <= RX_FIFO_XON_THRESHOLD /\ t.xoff_sent
    THEN SendXON(t, os)
    ELSE t

\* variant: a full FIFO loses its newest byte instead of its oldest
QueueRxByte_DropNewest(t, byte, os) ==
    IF byte = 17 \/ byte = 19 THEN t
    ELSE LET t1 == IF Len(t.rx_fifo) >= RX_FIFO_MAX
                   THEN [t EXCEPT !.rx_fifo = SubSeq(@, 1, Len(@) - 1),
                                  !.rx_overrun_drops = @ + 1]
                   ELSE t
             t2 == [t1 EXCEPT !.rx_fifo = Append(@, byte)]
         IN IF Len(t2.rx_fifo) >= RX_FIFO_XOFF_THRESHOLD /\ ~t2.xoff_sent
            THEN SendXOFF(t2, os)
            ELSE t2

\* variant: no filter for the flow-control bytes
QueueRxByte_NoFilter(t, byte, os) ==
    LET t1 == IF Len(t.rx_fifo) >= RX_FIFO_MAX
              THEN [t EXCEPT !.rx_fifo = Tail(@),
                             !.rx_overrun_drops = @ + 1]
              ELSE t
        t2 == [t1 EXCEPT !.rx_fifo = Append(@, byte)]
    IN IF Len(t2.rx_fifo) >= RX_FIFO_XOFF_THRESHOLD /\ ~t2.xoff_sent
       THEN SendXOFF(t2, os)
       ELSE t2

\* variant: XOFF only strictly above the high watermark
QueueRxByte_StrictXoff(t, byte, os) ==
    IF byte = 17 \/ byte = 19 THEN t
    ELSE LET t1 == IF Len(t.rx_fifo) >= RX_FIFO_MAX
                   THEN [t EXCEPT !.rx_fifo = Tail(@),
                                  !.rx_overrun_drops = @ + 1]
                   ELSE t
             t2 == [t1 EXCEPT !.rx_fifo = Append(@, byte)]
         IN IF Len(t2.rx_fifo) > RX_FIFO_XOFF_THRESHOLD /\ ~t2.xoff_sent
            THEN SendXOFF(t2, os)
            ELSE t2

\* IoCardTermMux::queueRxByte, without its closing updateInterrupt
QueueRxByte(t, byte, os) ==
    IF byte = 17 \/ byte = 19 THEN t
    ELSE LET t1 == IF Len(t.rx_fifo) >= RX_FIFO_MAX
                   THEN [t EXCEPT !.rx_fifo = Tail(@),
                                  !.rx_overrun_drops = @ + 1]
                   ELSE t
             t2 == [t1 EXCEPT !.rx_fifo = Append(@, byte)]
         IN IF Len(t2.rx_fifo) >= RX_FIFO_XOFF_THRESHOLD /\ ~t2.xoff_sent
            THEN SendXOFF(t2, os)
            ELSE t2

Min(a, b) == IF a < b THEN a ELSE b

\* variant: the batch is appended whole
QueueRxBytes_NoClamp(t, data) ==
    IF Len(data) = 0 THEN t
    ELSE LET length == Len(data)
             space0 == IF Len(t.rx_fifo) < RX_FIFO_MAX
                       THEN RX_FIFO_MAX - Len(t.rx_fifo) ELSE 0
             bytes_to_drop == Min(Min(length, RX_FIFO_MAX \div 2), Len(t.rx_fifo))
             t1 == IF space0 = 0
                   THEN [t EXCEPT !.rx_fifo = SubSeq(@, bytes_to_drop + 1, Len(@)),
                                  !.rx_overrun_drops = @ + bytes_to_drop]
                   ELSE t
         IN [t1 EXCEPT !.rx_fifo = @ \o data]

\* IoCardTermMux::queueRxBytes, without its closing updateInterrupt
QueueRxBytes(t, data) ==
    IF Len(data) = 0 THEN t
    ELSE LET length == Len(data)
             space0 == IF Len(t.rx_fifo) < RX_FIFO_MAX
                       THEN RX_FIFO_MAX - Len(t.rx_fifo) ELSE 0
             bytes_to_drop == Min(Min(length, RX_FIFO_MAX \div 2), Len(t.rx_fifo))
             t1 == IF space0 = 0
                   THEN [t EXCEPT !.rx_fifo = SubSeq(@, bytes_to_drop + 1, Len(@)),
                                  !.rx_overrun_drops = @ + bytes_to_drop]
                   ELSE t
             available_space == IF space0 = 0
                                THEN RX_FIFO_MAX - Len(t1.rx_fifo) ELSE space0
             bytes_to_add == Min(length, available_space)
             t2 == [t1 EXCEPT !.rx_fifo = @ \o SubSeq(data, 1, bytes_to_add)]
         IN IF bytes_to_add < length
            THEN [t2 EXCEPT !.rx_overrun_drops = @ + (length - bytes_to_add)]
            ELSE t2

\* length successive calls of queueRxByte, one per byte of data
RECURSIVE QueueRxByteEach(_, _, _)
QueueRxByteEach(t, data, os) ==
    IF data = <<>> THEN t
    ELSE QueueRxByteEach(QueueRxByte(t, Head(data), os), Tail(data), os)

\* IoCardTermMux::updateInterrupt, on the terminal array ts
UpdateInterrupt(ts, num_terms) ==
    \E i \in Channels : i < num_terms /\ ts[i].rx_fifo # <<>>

\* the tail of IoCardTermMux::serialRxByte, after queueRxByte has returned;
\* tail_xon marks that the XON counter moved here
SerialRxTail(t, os) ==
    IF Len(t.rx_fifo) <= RX_FIFO_XON_THRESHOLD /\ t.xoff_sent
    THEN LET t1 == CheckAndSendFlowControl(t, os)
         IN [t1 EXCEPT !.tail_xon = (t1.xon_sent_count # t.xon_sent_count)]
    ELSE t

\* the IN_UART_DATA case of IoCardTermMux::i8080_in_func, on the selected channel
InUartData(t, os) ==
    IF t.rx_fifo # <<>>
    THEN CheckAndSendFlowControl([t EXCEPT !.rx_fifo = Tail(@)], os)
    ELSE t

\* variant: the read returns the newest byte
InUartDataValue_Newest(t) ==
    IF t.rx_fifo # <<>> THEN t.rx_fifo[Len(t.rx_fifo)] ELSE 0

\* the value IN_UART_DATA returns
InUartDataValue(t) == IF t.rx_fifo # <<>> THEN Head(t.rx_fifo) ELSE 0

\* the IN_UART_RXRDY case of IoCardTermMux::i8080_in_func, as the set of set bits
InUartRxRdy == {i \in Channels : m_terms[i].rx_fifo # <<>>}

\* ---------------------------------------------------------- Scheduler, TX

\* Scheduler::createTimer on the queue q: callback mxdToTermCallback(ch, byte)
\* due after delay ticks
CreateTimer(q, delay, ch, byte) ==
    Append(q, [ch |-> ch, byte |-> byte, left |-> delay])

\* the timers Scheduler::tick fires now, and the one it fires first
DueTimers(q) == {i \in 1..Len(q) : q[i].left = 0}
FirstDue(q) == CHOOSE i \in DueTimers(q) : \A j \in DueTimers(q) : i <= j

\* the queue without its i-th timer
RemoveTimer(q, i) == SubSeq(q, 1, i - 1) \o SubSeq(q, i + 1, Len(q))

\* variant: the channel's pending timer is not looked at
CheckTxBuffer_NoTmrCheck(st, ch) ==
    IF st.terms[ch].tx_ready THEN st
    ELSE [terms |-> [st.terms EXCEPT ![ch].tx_tmr = TRUE],
          timers |-> CreateTimer(st.timers, SERIAL_CHAR_DELAY, ch, st.terms[ch].tx_byte)]

\* variant: the character timer is one tick short
CheckTxBuffer_Short(st, ch) ==
    IF st.terms[ch].tx_ready \/ st.terms[ch].tx_tmr THEN st
    ELSE [terms |-> [st.terms EXCEPT ![ch].tx_tmr = TRUE],
          timers |-> CreateTimer(st.timers, SERIAL_CHAR_DELAY - 1, ch, st.terms[ch].tx_byte)]

\* IoCardTermMux::checkTxBuffer on the card state st = [terms, timers]
CheckTxBuffer(st, ch) ==
    IF st.terms[ch].tx_ready \/ st.terms[ch].tx_tmr THEN st
    ELSE [terms |-> [st.terms EXCEPT ![ch].tx_tmr = TRUE],
          timers |-> CreateTimer(st.timers, SERIAL_CHAR_DELAY, ch, st.terms[ch].tx_byte)]

\* the backpressure test of mxdToTermCallback: float(size) / capacity > 0.90f
TxQueueOverGate(t) == Len(t.port.m_outbuf) * 10 > 9 * TxQueueSize

\* variant: the callback sends the byte latched in tx_byte when it fires
MxdToTermCallback_Latest(st, ch, byte, os) ==
    LET t0 == [st.terms[ch] EXCEPT !.tx_tmr = FALSE]
    IN IF t0.serial_port /\ t0.port.open /\ TxQueueOverGate(t0)
       THEN [terms |-> [st.terms EXCEPT ![ch] = [t0 EXCEPT !.tx_tmr = TRUE]],
             timers |-> CreateTimer(st.timers, TX_GATE_DELAY, ch, byte)]
       ELSE LET t1 == IF t0.session THEN SessionMxdToTerm(t0, t0.tx_byte % 256, os)
                      ELSE IF t0.serial_port THEN PortSendByte(t0, t0.tx_byte % 256, os)
                      ELSE t0
                t2 == [t1 EXCEPT !.tx_ready = TRUE]
            IN CheckTxBuffer([terms |-> [st.terms EXCEPT ![ch] = t2],
                              timers |-> st.timers], ch)

\* IoCardTermMux::mxdToTermCallback(ch, byte), st.timers being the queue after
\* the scheduler has taken the fired timer out
MxdToTermCallback(st, ch, byte, os) ==
    LET t0 == [st.terms[ch] EXCEPT !.tx_tmr = FALSE]
    IN IF t0.serial_port /\ t0.port.open /\ TxQueueOverGate(t0)
       THEN [terms |-> [st.terms EXCEPT ![ch] = [t0 EXCEPT !.tx_tmr = TRUE]],
             timers |-> CreateTimer(st.timers, TX_GATE_DELAY, ch, byte)]
       ELSE LET t1 == IF t0.session THEN SessionMxdToTerm(t0, byte % 256, os)
                      ELSE IF t0.serial_port THEN PortSendByte(t0, byte % 256, os)
                      ELSE t0
                t2 == [t1 EXCEPT !.tx_ready = TRUE]
            IN CheckTxBuffer([terms |-> [st.terms EXCEPT ![ch] = t2],
                              timers |-> st.timers], ch)

\* the OUT_UART_DATA case of IoCardTermMux::i8080_out_func
OutUartDataCase(st, sel, num_terms, byte) ==
    IF sel < num_terms
    THEN CheckTxBuffer([terms |-> [st.terms EXCEPT ![sel].tx_ready = FALSE,
                                                   ![sel].tx_byte = byte],
                        timers |-> st.timers], sel)
    ELSE st

\* ------------------------------------------------------------------ Init

InitTerm(com) ==
    [serial_port |-> com, session |-> FALSE,
     port |-> IF com THEN NewPort ELSE NoPort,
     rx_fifo |-> <<>>, rx_overrun_drops |-> 0,
     xoff_sent |-> FALSE, xoff_sent_count |-> 0, xon_sent_count |-> 0,
     tx_ready |-> TRUE, tx_byte |-> 0, tx_tmr |-> FALSE,
     sent |-> <<>>, did_xoff |-> FALSE, tail_xon |-> FALSE]

\* IoCardTermMux::IoCardTermMux: terminals below m_num_terms whose COM port
\* opened get a card-owned serial port, every other channel has no transport
Init ==
    /\ m_num_terms \in 1..MAX_TERMINALS
    /\ numTerminals \in 1..MAX_TERMINALS
    /\ m_uart_sel = 0
    /\ m_interrupt_pending = FALSE
    /\ \E coms \in SUBSET Channels :
          /\ \A n \in coms : n < m_num_terms
          /\ m_terms = [n \in Channels |-> InitTerm(n \in coms)]
    /\ rx_in = [n \in Channels |-> <<>>]
    /\ rx_out = [n \in Channels |-> <<>>]
    /\ rx_offered = 0
    /\ fc_offered = FALSE
    /\ size_at_xoff = [n \in Channels |-> 0]
    /\ timers = <<>>
    /\ since_write = [n \in Channels |-> SERIAL_CHAR_DELAY]
    /\ since_start = [n \in Channels |-> SERIAL_CHAR_DELAY]
    /\ tx_accepted = [n \in Channels |-> <<>>]
    /\ tx_handed = [n \in Channels |-> <<>>]
    /\ tx_stable = [n \in Channels |-> FALSE]
    /\ rxw = [pc |-> "idle", ch |-> 0, byte |-> 0, has |-> FALSE]
    /\ bus = [m_selected |-> FALSE, m_cpb |-> TRUE, m_io_offset |-> 0,
              m_prime_seen |-> TRUE, m_obs_seen |-> FALSE, m_cbs_seen |-> FALSE,
              m_obscbs_offset |-> 0, m_obscbs_data |-> 0, m_rbi |-> 255,
              strobe_offset |-> 0, strobe_data |-> 0, last_in |-> 0,
              assert_ok |-> TRUE]
    /\ dev_rdy = FALSE
    /\ bus_op = FALSE
    /\ bus_rv = 0
    /\ obs_run = [stage |-> 0, k |-> 0, v |-> 0]
    /\ sp = [fd_open |-> FALSE, m_connected |-> FALSE, m_reconnectAttempts |-> 0,
             thread |-> "none", terminated |-> FALSE, slept |-> 0, last |-> "none",
             started_over |-> "none"]
    /\ node = TRUE
    /\ probe = [n |-> -1, delay |-> 0]
    /\ loop = [elapsed |-> 0, pc |-> "run", session |-> FALSE, opens |-> 0]
    /\ dev_present = FALSE
    /\ port_rx = <<>>
    /\ fc_run = [kind |-> "none", flag0 |-> FALSE, prev_flag |-> FALSE,
                 changed |-> FALSE, calls |-> 0, handed |-> 0, wire |-> 0]
    /\ closing = [closer |-> "idle", worker |-> "none", stop |-> FALSE, pipe |-> 0,
                  fd |-> FALSE, outbuf |-> 0, rx |-> 0, terminated |-> FALSE,
                  late_cb |-> FALSE, dev_node |-> TRUE, reopens |-> 0,
                  stale_cancel |-> FALSE]
    /\ txdev = [next |-> 1, device |-> <<>>, m_outbuf |-> <<>>, room |-> MaxRoom,
                captured |-> <<>>, received |-> <<>>, caller |-> "idle",
                pend |-> <<>>, fd |-> TRUE, left |-> -1]
    /\ mainloop = [pc |-> "top", iter |-> 0, now |-> 0, nextSlice |-> 0,
                   lastStatsTime |-> 0, lastRetryTime |-> 0, catchupCount |-> 0,
                   timerMs |-> NoTimer, deadline |-> 0, entry |-> 0,
                   behind |-> FALSE]
    /\ web = [flag |-> FALSE, main |-> "loop", ini |-> 0, host |-> 0, sys |-> 0,
              reloaded_by |-> {}, applied_by |-> {},
              unserved |-> FALSE]
    /\ shutdown = [main |-> "test", running |-> TRUE, dumpStatus |-> FALSE,
                   handler |-> "none", webServer |-> TRUE, sessions |-> {},
                   mux_sessions |-> {}, i |-> 0, exit |-> -1,
                   signalled |-> FALSE]
    /\ dtor = [session |-> "alive", worker |-> "poll", m_rxCallback |-> TRUE,
               stop |-> FALSE, fd |-> TRUE, rx |-> 0, forwarded |-> 0,
               stale |-> FALSE, late |-> FALSE, terminated |-> FALSE]
    /\ termcfg = [pc |-> "config", enabled |-> FALSE, port_named |-> FALSE,
                 dev_node |-> FALSE, session |-> FALSE, opened_by |-> "none",
                 elapsed |-> 0]
    /\ emu = [pc |-> "idle", ch |-> 0, rv |-> 0, has |-> FALSE]

\* ---------------------------------------------------------------- actions

\* every handler starts with nothing sent yet on any channel
Fresh(ts) ==
    [n \in Channels |-> [ts[n] EXCEPT !.sent = <<>>, !.did_xoff = FALSE,
                                      !.tail_xon = FALSE]]

\* history kept by every handler that may run sendXOFF on channel ch
NoteXoff(ch, sz) ==
    size_at_xoff' = IF m_terms'[ch].did_xoff
                    THEN [size_at_xoff EXCEPT ![ch] = sz]
                    ELSE size_at_xoff

NoteRx(ch, byte) ==
    /\ rx_offered' = rx_offered + 1
    /\ fc_offered' = (fc_offered \/ byte \in FlowBytes)
    /\ rx_in' = IF byte \in FlowBytes THEN rx_in
                ELSE [rx_in EXCEPT ![ch] = Append(@, byte)]

\* IoCardTermMux::serialRxByte, called by the RX callback of the open port
\* behind the channel's transport
SerialRxByte(ch, byte, os) ==
    /\ (m_terms[ch].serial_port \/ m_terms[ch].session) /\ m_terms[ch].port.open
    /\ LET t1 == QueueRxByte(Fresh(m_terms)[ch], byte, os)
           ts1 == [Fresh(m_terms) EXCEPT ![ch] = t1]
           irq1 == UpdateInterrupt(ts1, m_num_terms)
           t2 == SerialRxTail(t1, os)
       IN /\ m_terms' = [ts1 EXCEPT ![ch] = t2]
          /\ m_interrupt_pending' = irq1
          /\ NoteXoff(ch, Len(t1.rx_fifo))
    /\ NoteRx(ch, byte)
    /\ UNCHANGED <<timers, since_write, since_start, m_num_terms, numTerminals, m_uart_sel, rx_out>>

\* IoCardTermMux::serialToMxdRx
SerialToMxdRx(ch, byte, os) ==
    /\ LET t1 == QueueRxByte(Fresh(m_terms)[ch], byte, os)
           ts1 == [Fresh(m_terms) EXCEPT ![ch] = t1]
       IN /\ m_terms' = ts1
          /\ m_interrupt_pending' = UpdateInterrupt(ts1, m_num_terms)
          /\ NoteXoff(ch, Len(t1.rx_fifo))
    /\ NoteRx(ch, byte)
    /\ UNCHANGED <<timers, since_write, since_start, m_num_terms, numTerminals, m_uart_sel, rx_out>>

\* IoCardTermMux::receiveKeystroke, from the GUI terminal of a configured channel
ReceiveKeystroke(ch, keycode, os) ==
    /\ ch < m_num_terms
    /\ IF m_terms[ch].serial_port
       THEN /\ m_terms' = Fresh(m_terms)
            /\ UNCHANGED <<m_interrupt_pending, size_at_xoff, rx_in>>
            /\ rx_offered' = rx_offered + 1
            /\ UNCHANGED fc_offered
       ELSE /\ LET t1 == QueueRxByte(Fresh(m_terms)[ch], keycode % 256, os)
                   ts1 == [Fresh(m_terms) EXCEPT ![ch] = t1]
               IN /\ m_terms' = ts1
                  /\ m_interrupt_pending' = UpdateInterrupt(ts1, m_num_terms)
                  /\ NoteXoff(ch, Len(t1.rx_fifo))
            /\ NoteRx(ch, keycode % 256)
    /\ UNCHANGED <<timers, since_write, since_start, m_num_terms, numTerminals, m_uart_sel, rx_out>>

\* i8080_in_func(IN_UART_DATA): the firmware reads the selected uart's data port
ReadUartData(os) ==
    LET ch == m_uart_sel
        t0 == Fresh(m_terms)[ch]
        t1 == InUartData(t0, os)
        ts1 == [Fresh(m_terms) EXCEPT ![ch] = t1]
    IN /\ m_terms' = ts1
       /\ m_interrupt_pending' = UpdateInterrupt(ts1, m_num_terms)
       /\ rx_out' = [rx_out EXCEPT ![ch] =
                        IF t0.rx_fifo # <<>> /\ Len(@) < MaxRx
                        THEN Append(@, InUartDataValue(t0)) ELSE @]
       /\ NoteXoff(ch, Len(t1.rx_fifo))
       /\ UNCHANGED <<timers, since_write, since_start, m_num_terms, numTerminals, m_uart_sel, rx_in, rx_offered, fc_offered>>

\* a call of IoCardTermMux::queueRxBytes with a batch for channel ch
QueueRxBytesCall(ch, data) ==
    /\ LET ts1 == [Fresh(m_terms) EXCEPT ![ch] = QueueRxBytes(@, data)]
       IN /\ m_terms' = ts1
          /\ m_interrupt_pending' = UpdateInterrupt(ts1, m_num_terms)
    /\ rx_offered' = rx_offered + Len(data)
    /\ fc_offered' = (fc_offered \/ \E i \in 1..Len(data) : data[i] \in FlowBytes)
    /\ rx_in' = [rx_in EXCEPT ![ch] = @ \o data]
    /\ UNCHANGED <<timers, since_write, since_start, m_num_terms, numTerminals, m_uart_sel, rx_out, size_at_xoff>>

\* i8080_out_func(OUT_UART_SEL), one-hot byte decoded to the uart index
UartSelOf(byte) ==
    IF byte = 1 THEN 0 ELSE IF byte = 2 THEN 1 ELSE IF byte = 4 THEN 2
    ELSE IF byte = 8 THEN 3 ELSE 0

OutUartSel(byte) ==
    /\ m_uart_sel' = UartSelOf(byte)
    /\ m_terms' = Fresh(m_terms)
    /\ UNCHANGED <<timers, since_write, since_start, m_num_terms, numTerminals, m_interrupt_pending,
                   rx_in, rx_out, rx_offered, fc_offered, size_at_xoff>>

Tick1(c) == IF c < SERIAL_CHAR_DELAY THEN c + 1 ELSE c

\* i8080_out_func(OUT_UART_DATA): the firmware writes the selected uart's data port
OutUartData(byte) ==
    LET st == OutUartDataCase([terms |-> Fresh(m_terms), timers |-> timers],
                              m_uart_sel, m_num_terms, byte)
    IN /\ m_terms' = st.terms
       /\ timers' = st.timers
       /\ since_write' = IF m_uart_sel < m_num_terms
                         THEN [since_write EXCEPT ![m_uart_sel] = 0]
                         ELSE since_write
       /\ since_start' = IF Len(st.timers) > Len(timers)
                         THEN [since_start EXCEPT ![m_uart_sel] = 0]
                         ELSE since_start
       /\ UNCHANGED <<m_num_terms, numTerminals, m_uart_sel, m_interrupt_pending,
                      rx_in, rx_out, rx_offered, fc_offered, size_at_xoff>>

\* one tick of virtual time passes; Scheduler::tick has fired every due timer
AdvanceTime ==
    /\ DueTimers(timers) = {}
    /\ timers' = [i \in 1..Len(timers) |-> [timers[i] EXCEPT !.left = @ - 1]]
    /\ since_write' = [n \in Channels |-> Tick1(since_write[n])]
    /\ since_start' = [n \in Channels |-> Tick1(since_start[n])]
    /\ m_terms' = Fresh(m_terms)
    /\ UNCHANGED <<m_num_terms, numTerminals, m_uart_sel, m_interrupt_pending,
                   rx_in, rx_out, rx_offered, fc_offered, size_at_xoff>>

\* Scheduler::tick fires the first due timer: mxdToTermCallback runs
TimerFire(os) ==
    /\ DueTimers(timers) # {}
    /\ LET i == FirstDue(timers)
           st == MxdToTermCallback([terms |-> Fresh(m_terms),
                                    timers |-> RemoveTimer(timers, i)],
                                   timers[i].ch, timers[i].byte, os)
       IN /\ m_terms' = st.terms
          /\ timers' = st.timers
    /\ UNCHANGED <<m_num_terms, numTerminals, m_uart_sel, m_interrupt_pending,
                   rx_in, rx_out, rx_offered, fc_offered, size_at_xoff,
                   since_write, since_start>>

\* the port's RX worker sees POLLOUT and calls flushTxBuffer, the kernel
\* taking n bytes
PortFlush(ch, n) ==
    /\ (m_terms[ch].serial_port \/ m_terms[ch].session) /\ m_terms[ch].port.open
    /\ m_terms[ch].port.m_outbuf # <<>>
    /\ m_terms' = [Fresh(m_terms) EXCEPT ![ch] = FlushTxBuffer(@, n)]
    /\ UNCHANGED <<m_num_terms, numTerminals, m_uart_sel, m_interrupt_pending,
                   rx_in, rx_out, rx_offered, fc_offered, size_at_xoff,
                   timers, since_write, since_start>>

\* IoCardTermMux::setSession as main() calls it for a terminal of the server
\* configuration: with a new session over a freshly opened port (attach = TRUE)
\* or with nullptr (attach = FALSE)
SetSession(ch, attach) ==
    /\ ch < numTerminals
    /\ m_terms' = [Fresh(m_terms) EXCEPT ![ch].serial_port = FALSE,
                                         ![ch].session = attach,
                                         ![ch].port = IF attach THEN NewPort ELSE NoPort]
    /\ UNCHANGED <<timers, since_write, since_start, m_num_terms, numTerminals, m_uart_sel, m_interrupt_pending,
                   rx_in, rx_out, rx_offered, fc_offered, size_at_xoff>>

\* the port's RX worker loses the device: SerialPort::attemptReconnect closes
\* the descriptor (isOpen() turns false)
PortLost(ch) ==
    /\ (m_terms[ch].serial_port \/ m_terms[ch].session) /\ m_terms[ch].port.open
    /\ m_terms' = [Fresh(m_terms) EXCEPT ![ch].port.open = FALSE]
    /\ UNCHANGED <<timers, since_write, since_start, m_num_terms, numTerminals, m_uart_sel, m_interrupt_pending,
                   rx_in, rx_out, rx_offered, fc_offered, size_at_xoff>>

\* ------------------------------------------------------ the 2200 bus side

\* bit i of x
Bit(x, i) == (x \div (2 ^ i)) % 2

\* updateRbi's busy term
RbiBusy_Above4(b) ==
    \/ (b.m_obs_seen \/ b.m_cbs_seen) /\ b.m_io_offset > 4
    \/ Bit(b.m_rbi, b.m_io_offset - 1) # 0

RbiBusy(b) ==
    \/ (b.m_obs_seen \/ b.m_cbs_seen) /\ b.m_io_offset >= 4
    \/ Bit(b.m_rbi, b.m_io_offset - 1) # 0

\* updateRbi: the line is driven only while the card is selected
UpdateRbi(b, line) ==
    IF b.m_io_offset = 0 \/ ~b.m_selected THEN line ELSE ~RbiBusy(b)

\* the IN_2200_STATUS byte
In2200StatusValue(b) ==
      (IF b.m_obs_seen THEN 1 ELSE 0)
    + (IF b.m_cbs_seen THEN 2 ELSE 0)
    + (IF b.m_prime_seen THEN 4 ELSE 0)
    + (IF b.m_selected /\ ~b.m_cpb THEN 8 ELSE 0)
    + (IF b.m_selected THEN 16 ELSE 0)
    + ((b.m_io_offset * 32) % 256)

\* the IN_OBUS_N byte: the 8080 sees the inverted bus polarity
InObusNValue_Plain(b) == b.m_obscbs_data % 256

InObusNValue(b) == (255 - b.m_obscbs_data) % 256

\* what the bus operations leave alone
BusFrame ==
    UNCHANGED <<m_num_terms, numTerminals, m_uart_sel, m_interrupt_pending, m_terms,
                rx_in, rx_out, rx_offered, fc_offered, size_at_xoff,
                timers, since_write, since_start, txHist, raceVars, reconnVars, retryVars,
                fc_run, lateVars>>

\* the progress of the last operations through the sequence
\* select(k), strobeOBS(v), IN 0x01, IN 0x02, IN 0x01
RunAfter(op, arg) ==
    IF op = "select" /\ arg # 0 THEN [stage |-> 1, k |-> arg, v |-> 0]
    ELSE IF op = "strobeOBS" /\ obs_run.stage = 1 THEN [obs_run EXCEPT !.stage = 2, !.v = arg]
    ELSE IF op = "IN_2200_STATUS" /\ obs_run.stage = 2 THEN [obs_run EXCEPT !.stage = 3]
    ELSE IF op = "IN_OBUS_N" /\ obs_run.stage = 3 THEN [obs_run EXCEPT !.stage = 4]
    ELSE IF op = "IN_2200_STATUS" /\ obs_run.stage = 4 THEN [obs_run EXCEPT !.stage = 5]
    ELSE [stage |-> 0, k |-> 0, v |-> 0]

\* variant: select() latching the offset into the strobe latch as well
Select_Relatch(ab) ==
    /\ LET b == IF ab % 8 = 0
                THEN [bus EXCEPT !.m_io_offset = 0, !.last_in = 0]
                ELSE [bus EXCEPT !.m_io_offset = ab % 8, !.m_selected = TRUE,
                                 !.m_obscbs_offset = ab % 8, !.last_in = 0]
       IN /\ bus' = b
          /\ dev_rdy' = IF ab % 8 = 0 THEN dev_rdy ELSE UpdateRbi(b, dev_rdy)
    /\ bus_op' = TRUE /\ bus_rv' = 0 /\ obs_run' = RunAfter("select", ab % 8)
    /\ BusFrame

\* select(): the address bus gives the offset; offset 0 is not handled
Select(ab) ==
    /\ LET b == IF ab % 8 = 0
                THEN [bus EXCEPT !.m_io_offset = 0, !.last_in = 0]
                ELSE [bus EXCEPT !.m_io_offset = ab % 8, !.m_selected = TRUE,
                                 !.last_in = 0]
       IN /\ bus' = b
          /\ dev_rdy' = IF ab % 8 = 0 THEN dev_rdy ELSE UpdateRbi(b, dev_rdy)
    /\ bus_op' = TRUE /\ bus_rv' = 0 /\ obs_run' = RunAfter("select", ab % 8)
    /\ BusFrame

\* deselect()
Deselect ==
    /\ dev_rdy' = FALSE
    /\ bus' = [bus EXCEPT !.m_selected = FALSE, !.m_cpb = TRUE, !.last_in = 0]
    /\ bus_op' = FALSE /\ bus_rv' = 0 /\ obs_run' = RunAfter("deselect", 0)
    /\ BusFrame

\* strobeOBS(val)
StrobeOBS(val) ==
    /\ LET b == [bus EXCEPT !.m_obs_seen = TRUE, !.m_obscbs_offset = bus.m_io_offset,
                            !.m_obscbs_data = val % 256,
                            !.assert_ok = @ /\ ~bus.m_obs_seen /\ ~bus.m_cbs_seen,
                            !.strobe_offset = bus.m_io_offset,
                            !.strobe_data = val % 256, !.last_in = 0]
       IN bus' = b /\ dev_rdy' = UpdateRbi(b, dev_rdy)
    /\ bus_op' = TRUE /\ bus_rv' = 0 /\ obs_run' = RunAfter("strobeOBS", val % 256)
    /\ BusFrame

\* strobeCBS(val)
StrobeCBS(val) ==
    /\ LET b == [bus EXCEPT !.m_cbs_seen = TRUE, !.m_obscbs_offset = bus.m_io_offset,
                            !.m_obscbs_data = val % 256,
                            !.assert_ok = @ /\ ~bus.m_obs_seen /\ ~bus.m_cbs_seen,
                            !.strobe_offset = bus.m_io_offset,
                            !.strobe_data = val % 256, !.last_in = 0]
       IN bus' = b /\ dev_rdy' = UpdateRbi(b, dev_rdy)
    /\ bus_op' = TRUE /\ bus_rv' = 0 /\ obs_run' = RunAfter("strobeCBS", val % 256)
    /\ BusFrame

\* setCpuBusy(busy)
SetCpuBusy(busy) ==
    /\ bus' = [bus EXCEPT !.m_cpb = busy, !.last_in = 0]
    /\ bus_op' = FALSE /\ bus_rv' = 0 /\ obs_run' = RunAfter("setCpuBusy", 0)
    /\ UNCHANGED dev_rdy
    /\ BusFrame

\* reset(): !PRMS only sets the latch the 8080 can sample
Reset ==
    /\ bus' = [bus EXCEPT !.m_prime_seen = TRUE, !.last_in = 0]
    /\ bus_op' = FALSE /\ bus_rv' = 0 /\ obs_run' = RunAfter("reset", 0)
    /\ UNCHANGED dev_rdy
    /\ BusFrame

\* i8080_in_func, case IN_2200_STATUS (port 0x01)
In2200Status ==
    /\ bus_rv' = In2200StatusValue(bus)
    /\ bus_op' = FALSE /\ obs_run' = RunAfter("IN_2200_STATUS", 0)
    /\ bus' = [bus EXCEPT !.last_in = 1]
    /\ UNCHANGED dev_rdy
    /\ BusFrame

\* i8080_in_func, case IN_OBUS_N (port 0x02)
InObusN ==
    /\ LET b == [bus EXCEPT !.m_obs_seen = FALSE, !.m_cbs_seen = FALSE, !.last_in = 2]
       IN /\ bus' = b
          /\ dev_rdy' = UpdateRbi(b, dev_rdy)
          /\ bus_rv' = InObusNValue(b)
    /\ bus_op' = TRUE /\ obs_run' = RunAfter("IN_OBUS_N", 0)
    /\ BusFrame

\* i8080_in_func, case IN_OBSCBS_ADDR (port 0x03)
InObscbsAddr ==
    /\ bus_rv' = (bus.m_obscbs_offset * 32) % 256
    /\ bus_op' = FALSE /\ obs_run' = RunAfter("IN_OBSCBS_ADDR", 0)
    /\ bus' = [bus EXCEPT !.last_in = 3]
    /\ UNCHANGED dev_rdy
    /\ BusFrame

\* i8080_out_func, case OUT_CLR_PRIME (port 0x00)
OutClrPrime ==
    /\ bus' = [bus EXCEPT !.m_prime_seen = FALSE, !.last_in = 0]
    /\ bus_op' = FALSE /\ bus_rv' = 0 /\ obs_run' = RunAfter("OUT_CLR_PRIME", 0)
    /\ UNCHANGED dev_rdy
    /\ BusFrame

\* i8080_out_func, case OUT_RBI (port 0x07)
OutRbi(byte) ==
    /\ LET b == [bus EXCEPT !.m_rbi = byte, !.last_in = 0]
       IN bus' = b /\ dev_rdy' = UpdateRbi(b, dev_rdy)
    /\ bus_op' = TRUE /\ bus_rv' = 0 /\ obs_run' = RunAfter("OUT_RBI", 0)
    /\ BusFrame

\* the host strobes only a selected card whose device-ready line is high
HostStrobeOBS(val) == bus.m_selected /\ dev_rdy /\ StrobeOBS(val)

HostStrobeCBS(val) == bus.m_selected /\ dev_rdy /\ StrobeCBS(val)

\* ------------------------------------------- SerialPort: open and reconnect

\* SerialPort::getReconnectDelayMs for an attempt count
GetReconnectDelayMs_NoClamp(attempts) ==
    Min(BASE_RECONNECT_DELAY_MS * (2 ^ attempts), RECONNECT_DELAY_CAP_MS)

GetReconnectDelayMs(attempts) ==
    Min(BASE_RECONNECT_DELAY_MS * (2 ^ Min(attempts, 5)), RECONNECT_DELAY_CAP_MS)

\* what the SerialPort operations leave alone
ReconnFrame ==
    UNCHANGED <<m_num_terms, numTerminals, m_uart_sel, m_interrupt_pending, m_terms,
                rx_in, rx_out, rx_offered, fc_offered, size_at_xoff,
                timers, since_write, since_start, txHist, raceVars, busVars, retryVars,
                fc_run, lateVars>>

\* SerialPort::close on an open port: stopReceiving joins the worker
ClosePort(p) ==
    IF ~p.fd_open THEN p
    ELSE [p EXCEPT !.fd_open = FALSE, !.m_connected = FALSE, !.thread = "none"]

\* the body of SerialPort::open once the port is closed: ::open(2) gives the
\* descriptor or fails; on success startReceiving assigns a new std::thread
\* to m_receiveThread, which calls std::terminate while the old one is
\* joinable, and only then are m_connected and m_reconnectAttempts reset;
\* the new worker has been started by then, and started_over keeps what the
\* handle referred to ("running": the worker that is reconnecting)
OpenClosedPort(p, ok) ==
    IF ~ok THEN [p EXCEPT !.last = "open_failed"]
    ELSE IF p.thread # "none"
    THEN [p EXCEPT !.terminated = TRUE, !.last = "terminate",
                   !.started_over = p.thread]
    ELSE [p EXCEPT !.fd_open = TRUE, !.thread = "running", !.m_connected = TRUE,
                   !.m_reconnectAttempts = 0, !.last = "open_ok"]

\* SerialPort::open(config) called by the port's owner
SerialPortOpen(os) ==
    /\ ~sp.terminated
    /\ sp' = OpenClosedPort(ClosePort(sp), node /\ os = "ok")
    /\ UNCHANGED <<node, probe>>
    /\ ReconnFrame

\* SerialPort::close() called by the port's owner
SerialPortClose ==
    /\ ~sp.terminated /\ sp.fd_open
    /\ sp' = [ClosePort(sp) EXCEPT !.last = "close"]
    /\ UNCHANGED <<node, probe>>
    /\ ReconnFrame

\* receiveThreadProc: read() fails or returns 0, or poll() fails. Below the
\* attempt limit the worker sleeps, counts the attempt and calls
\* attemptReconnect (close the descriptor, open(m_config)); the loop
\* condition isOpen() ends the thread after a failed open
ReceiveError(os) ==
    /\ ~sp.terminated /\ sp.thread = "running" /\ sp.fd_open
    /\ sp' = IF sp.m_reconnectAttempts < MAX_RECONNECT_ATTEMPTS
             THEN LET p1 == [sp EXCEPT !.m_connected = FALSE,
                                       !.slept = GetReconnectDelayMs(sp.m_reconnectAttempts),
                                       !.m_reconnectAttempts = @ + 1,
                                       !.fd_open = FALSE]
                      p2 == OpenClosedPort(p1, node /\ os = "ok")
                  IN IF p2.terminated THEN p2
                     ELSE [p2 EXCEPT !.thread = "exited", !.last = "reconnect_failed"]
             ELSE [sp EXCEPT !.m_connected = FALSE, !.thread = "exited",
                             !.last = "gave_up"]
    /\ UNCHANGED <<node, probe>>
    /\ ReconnFrame

\* the device node is unplugged or plugged in
NodeChange ==
    /\ node' = ~node
    /\ UNCHANGED <<sp, probe>>
    /\ ReconnFrame

\* getReconnectDelayMs with m_reconnectAttempts = n
ProbeDelay(n) ==
    /\ probe' = [n |-> n, delay |-> GetReconnectDelayMs(n)]
    /\ UNCHANGED <<sp, node>>
    /\ ReconnFrame

\* ------------------------------------ SerialPort: close against the worker

\* what the steps of close() and of the worker leave alone
CloseFrame ==
    UNCHANGED <<coreVars, txHist, oldSide, txdev, mainloop, web, shutdown, dtor, termcfg>>

\* SerialPort::open on the new port object: the descriptor, then startReceiving
ClOpen ==
    /\ ~closing.terminated /\ closing.closer = "idle"
    /\ ~closing.fd /\ closing.worker = "none" /\ closing.dev_node
    /\ closing' = [closing EXCEPT !.fd = TRUE, !.worker = "top", !.stop = FALSE]
    /\ CloseFrame

\* enqueueTx on the owner's thread leaves a byte in m_outbuf
ClEnqueue ==
    /\ ~closing.terminated /\ closing.closer = "idle" /\ closing.fd
    /\ closing.outbuf < MaxCloseOut
    /\ closing' = [closing EXCEPT !.outbuf = @ + 1]
    /\ CloseFrame

\* the device node is unplugged or plugged in
ClNode ==
    /\ ~closing.terminated
    /\ closing' = [closing EXCEPT !.dev_node = ~@]
    /\ CloseFrame

\* receiveThreadProc: the loop condition !m_stopReceiving && isOpen()
WorkerLoopTest ==
    /\ ~closing.terminated /\ closing.worker = "top"
    /\ closing' = [closing EXCEPT !.worker =
                      IF closing.stop \/ ~closing.fd THEN "exited" ELSE "poll"]
    /\ CloseFrame

\* receiveThreadProc: poll() returns 0 after its 10 ms
WorkerPollTimeout ==
    /\ ~closing.terminated /\ closing.worker = "poll"
    /\ closing' = [closing EXCEPT !.worker = "top"]
    /\ CloseFrame

\* receiveThreadProc: poll() reports the cancellation pipe, one byte is read
\* and the thread ends; stale_cancel records that no stop had been asked of
\* this worker (startReceiving had reset m_stopReceiving)
WorkerPollCancel ==
    /\ ~closing.terminated /\ closing.worker = "poll" /\ closing.pipe > 0
    /\ closing' = [closing EXCEPT !.worker = "exited", !.pipe = @ - 1,
                                  !.stale_cancel = @ \/ ~closing.stop]
    /\ CloseFrame

\* receiveThreadProc: poll() reports input, read() returns a byte and
\* processReceivedByte enters the RX callback
WorkerDispatch ==
    /\ ~closing.terminated /\ closing.worker = "poll" /\ closing.fd
    /\ closing.rx < MaxCloseRx
    /\ closing' = [closing EXCEPT !.worker = "dispatch", !.rx = @ + 1,
                                  !.late_cb = @ \/ closing.closer = "returned"]
    /\ CloseFrame

\* the RX callback returns
WorkerDispatchDone ==
    /\ ~closing.terminated /\ closing.worker = "dispatch"
    /\ closing' = [closing EXCEPT !.worker = "top"]
    /\ CloseFrame

\* receiveThreadProc: poll() reports POLLOUT and flushTxBuffer writes a byte
WorkerFlush ==
    /\ ~closing.terminated /\ closing.worker = "poll" /\ closing.fd
    /\ closing.outbuf > 0
    /\ closing' = [closing EXCEPT !.worker = "top", !.outbuf = @ - 1]
    /\ CloseFrame

\* receiveThreadProc: read() fails or returns 0, or poll() fails; the worker
\* goes to sleep for the reconnect delay
WorkerReadError ==
    /\ ~closing.terminated /\ closing.worker = "poll" /\ closing.fd
    /\ closing' = [closing EXCEPT !.worker = "sleep"]
    /\ CloseFrame

\* receiveThreadProc after the sleep: attemptReconnect closes the descriptor
\* and calls open(m_config); a failed open leaves the port closed, a
\* successful one reaches startReceiving, which assigns to the joinable
\* m_receiveThread: std::terminate
WorkerReconnect(os) ==
    /\ ~closing.terminated /\ closing.worker = "sleep"
    /\ closing' = IF closing.dev_node /\ os = "ok"
                  THEN [closing EXCEPT !.terminated = TRUE]
                  ELSE [closing EXCEPT !.fd = FALSE, !.worker = "top"]
    /\ CloseFrame

\* SerialPort::close up to the join: isOpen(), then stopReceiving sets
\* m_stopReceiving, writes the cancellation pipe and joins
CloseCall ==
    /\ ~closing.terminated /\ closing.closer = "idle" /\ closing.fd
    /\ closing.worker # "none"
    /\ closing' = [closing EXCEPT !.closer = "joining", !.stop = TRUE,
                                  !.pipe = @ + 1]
    /\ CloseFrame

\* SerialPort::close after the join has returned: ::close(m_fd), m_fd = -1,
\* m_outbuf.clear()
CloseJoined ==
    /\ ~closing.terminated /\ closing.closer = "joining"
    /\ closing.worker = "exited"
    /\ closing' = [closing EXCEPT !.closer = "returned", !.worker = "none",
                                  !.fd = FALSE, !.outbuf = 0]
    /\ CloseFrame

\* SerialPort::open on the same object after close() has returned: the
\* descriptor, then startReceiving resets m_stopReceiving and starts a worker;
\* the cancellation pipe made by the constructor is left as it is
ClReopen ==
    /\ ~closing.terminated /\ closing.closer = "returned"
    /\ ~closing.fd /\ closing.worker = "none" /\ closing.dev_node
    /\ closing.reopens < MaxReopen
    /\ closing' = [closing EXCEPT !.fd = TRUE, !.worker = "top", !.stop = FALSE,
                                  !.closer = "idle", !.reopens = @ + 1]
    /\ CloseFrame

\* ------------------------------------------ SerialPort: the TX path alone
\* txdev is one open port: the bytes submitted are numbered 1, 2, ... in the
\* order of the calls (next is the number of the next one), device is what
\* write(2) has handed to the kernel, room the space left in the kernel's
\* output queue, captured the calls of the capture callback <<byte, isRx>>,
\* received the bytes read from the device, caller the emulator thread
\* ("blocked": parked inside write(2)), pend the bytes of that write

\* what the TX path of one port leaves alone
DevFrame ==
    UNCHANGED <<coreVars, txHist, oldSide, closing, mainloop, web, shutdown, dtor, termcfg>>

\* the capture callback called for each byte of data, in order
Capture(cap, data, isRx) ==
    cap \o [i \in 1..Len(data) |-> <<data[i], isRx>>]

\* SerialPort::flushTxBuffer, write(2) taking k bytes of m_outbuf (0: EAGAIN
\* or an error): the bytes leave the buffer, the capture callback is not called
DevFlush(d, k) ==
    IF d.m_outbuf = <<>> \/ k = 0 THEN d
    ELSE [d EXCEPT !.device = @ \o SubSeq(d.m_outbuf, 1, k),
                   !.room = @ - k,
                   !.m_outbuf = SubSeq(@, k + 1, Len(@))]

\* SerialPort::enqueueTx: data that does not fit is dropped, data that fits
\* is appended and flushed at once
DevEnqueueTx(d, data, k) ==
    IF Len(data) = 0 THEN d
    ELSE IF Len(d.m_outbuf) + Len(data) > TxQueueSize THEN d
    ELSE LET d1 == [d EXCEPT !.m_outbuf = @ \o data]
         IN DevFlush(d1, Min(k, Min(d1.room, Len(d1.m_outbuf))))

\* the direct write(2) of sendByte and sendData on the descriptor that open()
\* made with O_RDWR | O_NOCTTY. os[1] is what the kernel does: "take" os[2]
\* bytes (fewer than asked is a partial write), "wait" (no space: the write
\* parks the caller, the descriptor being in blocking mode), "eagain" (the
\* outcome the fallback branch is written for), "error"; os[3] is what the
\* flush inside enqueueTx gets written
DevDirectWrite(d, data, os) ==
    LET n == Len(data)
        d0 == [d EXCEPT !.next = @ + n]
    IN CASE os[1] = "take" ->
              LET k == os[2]
                  d1 == [d0 EXCEPT !.device = @ \o SubSeq(data, 1, k),
                                   !.room = @ - k,
                                   !.captured = Capture(@, SubSeq(data, 1, k), FALSE)]
              IN IF k < n
                 THEN IF n = 1 THEN d1
                      ELSE DevEnqueueTx(d1, SubSeq(data, k + 1, n), os[3])
                 ELSE d1
         [] os[1] = "wait" -> [d0 EXCEPT !.caller = "blocked", !.pend = data]
         [] os[1] = "eagain" -> DevEnqueueTx(d0, data, os[3])
         [] OTHER -> d0

\* the outcomes write(2) can have for n bytes with the given space
DevOutcomes(n, room) ==
    {<<"take", k, f>> : k \in 1..Min(n, room), f \in 0..1}
        \cup (IF room < n THEN {<<"wait", 0, 0>>} ELSE {})
        \cup (IF room = 0 THEN {<<"eagain", 0, 0>>} ELSE {})
        \cup {<<"error", 0, 0>>}

\* SerialPort::sendByte on the emulator thread
DevSendByte ==
    /\ txdev.fd /\ txdev.caller = "idle" /\ txdev.next <= MaxSubmit
    /\ \E os \in DevOutcomes(1, txdev.room) :
           txdev' = DevDirectWrite(txdev, <<txdev.next>>, os)
    /\ DevFrame

\* SerialPort::sendData of two bytes on the emulator thread
DevSendData ==
    /\ txdev.fd /\ txdev.caller = "idle" /\ txdev.next + 1 <= MaxSubmit
    /\ \E os \in DevOutcomes(2, txdev.room) :
           txdev' = DevDirectWrite(txdev, <<txdev.next, txdev.next + 1>>, os)
    /\ DevFrame

\* the parked write(2) completes once the kernel has the space
DevWriteReturns ==
    /\ txdev.caller = "blocked" /\ txdev.room >= Len(txdev.pend)
    /\ txdev' = [txdev EXCEPT !.device = @ \o txdev.pend,
                              !.room = @ - Len(txdev.pend),
                              !.captured = Capture(@, txdev.pend, FALSE),
                              !.caller = "idle", !.pend = <<>>]
    /\ DevFrame

\* the device transmits a byte: one more byte of space in the kernel
DevDrain ==
    /\ txdev.room < MaxRoom
    /\ txdev' = [txdev EXCEPT !.room = @ + 1]
    /\ DevFrame

\* receiveThreadProc, POLLOUT: the worker flushes the TX buffer
DevWorkerFlush ==
    /\ txdev.fd /\ txdev.m_outbuf # <<>> /\ txdev.room > 0
    /\ \E k \in 1..Min(txdev.room, Len(txdev.m_outbuf)) :
           txdev' = DevFlush(txdev, k)
    /\ DevFrame

\* receiveThreadProc, POLLIN: processReceivedByte for a byte read
DevWorkerRx ==
    /\ txdev.fd /\ Len(txdev.received) < MaxDevRx
    /\ LET b == 100 + Len(txdev.received)
       IN txdev' = [txdev EXCEPT !.received = Append(@, b),
                                 !.captured = Capture(@, <<b>>, TRUE)]
    /\ DevFrame

\* receiveThreadProc: read() fails or returns 0 and attemptReconnect's
\* open(m_config) fails: ::close(m_fd), m_fd = -1, the worker ends; m_outbuf
\* is not touched
DevReconnectFails ==
    /\ txdev.fd /\ txdev.caller = "idle"
    /\ txdev' = [txdev EXCEPT !.fd = FALSE]
    /\ DevFrame

\* SerialPort::close on the owner's thread: nothing unless isOpen(); else the
\* descriptor is closed and m_outbuf cleared. left is getTxQueueSize() as
\* the call returns
DevClose ==
    /\ txdev.caller = "idle"
    /\ txdev' = IF ~txdev.fd
                THEN [txdev EXCEPT !.left = Len(txdev.m_outbuf)]
                ELSE [txdev EXCEPT !.fd = FALSE, !.m_outbuf = <<>>, !.left = 0]
    /\ DevFrame

\* SerialPort::flushTxQueue: m_outbuf.clear()
DevFlushTxQueue ==
    /\ txdev.caller = "idle"
    /\ txdev' = [txdev EXCEPT !.m_outbuf = <<>>, !.left = 0]
    /\ DevFrame

\* ------------------------------------------------- main loop: the timing
\* mainloop is the loop of main(): now, nextSlice, lastStatsTime and
\* lastRetryTime are its locals (ms), timerMs what the scheduler reported,
\* deadline the deadline computed; entry and behind remember nextSlice and
\* the test nextSlice <= now as they were when the slice was advanced

\* what the main loop's timing leaves alone
MainFrame ==
    UNCHANGED <<coreVars, txHist, oldSide, closing, txdev, web, shutdown, dtor, termcfg>>

\* the top of an iteration: the flags, onIdle(); dt ms later now = clock::now()
MainIdle(dt) ==
    /\ mainloop.pc = "top" /\ mainloop.iter < MaxIter
    /\ mainloop' = [mainloop EXCEPT !.now = @ + dt, !.pc = "slice",
                                    !.entry = mainloop.nextSlice,
                                    !.behind = (mainloop.nextSlice <= mainloop.now + dt),
                                    !.catchupCount = 0]
    /\ MainFrame

\* nextSlice is ahead: it is advanced by one slice
SliceAhead ==
    /\ mainloop.pc = "slice" /\ ~(mainloop.nextSlice <= mainloop.now)
    /\ mainloop' = [mainloop EXCEPT !.nextSlice = @ + SliceDuration,
                                    !.pc = "deadline"]
    /\ MainFrame

\* nextSlice <= now: the catch-up loop is entered
CatchupEnter ==
    /\ mainloop.pc = "slice" /\ mainloop.nextSlice <= mainloop.now
    /\ mainloop' = [mainloop EXCEPT !.catchupCount = 0, !.pc = "catchup"]
    /\ MainFrame

\* variant: the catch-up loop without its safety limit
CatchupStep_NoLimit ==
    /\ mainloop.pc = "catchup"
    /\ LET ns == mainloop.nextSlice + SliceDuration
       IN mainloop' = [mainloop EXCEPT
              !.nextSlice = ns,
              !.catchupCount = @ + 1,
              !.pc = IF ns <= mainloop.now THEN "catchup" ELSE "deadline"]
    /\ MainFrame

\* one pass of the do-while body and its test
CatchupStep ==
    /\ mainloop.pc = "catchup"
    /\ LET ns == mainloop.nextSlice + SliceDuration
           cnt == mainloop.catchupCount + 1
       IN mainloop' =
              IF cnt > CatchupLimit
              THEN [mainloop EXCEPT !.nextSlice = mainloop.now + SliceDuration,
                                    !.catchupCount = cnt, !.pc = "deadline"]
              ELSE [mainloop EXCEPT
                        !.nextSlice = ns, !.catchupCount = cnt,
                        !.pc = IF ns <= mainloop.now THEN "catchup" ELSE "deadline"]
    /\ MainFrame

\* variant: the timer's deadline taken without the 1 ms minimum
DeadlineOf_NoMinimum(ml, t) ==
    LET d1 == IF t # NoTimer THEN Min(ml.nextSlice, ml.now + t) ELSE ml.nextSlice
    IN Min(Min(d1, ml.lastStatsTime + StatsPeriodMs),
           Min(ml.lastRetryTime + StatsPeriodMs, ml.now + MaxWaitMs))

\* the deadline as the loop computes it, t being the scheduler's report
DeadlineOf(ml, t) ==
    LET safeTimerMs == IF t > 1 THEN t ELSE 1
        d1 == IF t # NoTimer THEN Min(ml.nextSlice, ml.now + safeTimerMs)
              ELSE ml.nextSlice
    IN Min(Min(d1, ml.lastStatsTime + StatsPeriodMs),
           Min(ml.lastRetryTime + StatsPeriodMs, ml.now + MaxWaitMs))

\* the deadline is computed from the scheduler's report
MainDeadline(t) ==
    /\ mainloop.pc = "deadline"
    /\ mainloop' = [mainloop EXCEPT !.timerMs = t,
                                    !.deadline = DeadlineOf(mainloop, t),
                                    !.pc = "wait"]
    /\ MainFrame

\* the wait until the deadline (cut short by a signal when early), then the
\* statistics and the retry of every 30 s
MainWait(early) ==
    /\ mainloop.pc = "wait"
    /\ early => mainloop.deadline > mainloop.now
    /\ LET woke == IF mainloop.deadline > mainloop.now /\ ~early
                   THEN mainloop.deadline ELSE mainloop.now
       IN mainloop' = [mainloop EXCEPT
              !.now = woke,
              !.lastStatsTime = IF woke - @ >= StatsPeriodMs THEN woke ELSE @,
              !.lastRetryTime = IF woke - @ >= StatsPeriodMs THEN woke ELSE @,
              !.iter = @ + 1,
              !.pc = "top"]
    /\ MainFrame

\* ------------------------------- main(): which terminals get a port opened
\* termcfg is terminal i < numTerminals: enabled and port_named (portName is
\* not empty) are config.terminals[i], dev_node whether access(portName)
\* succeeds, session is sessions[i], opened_by the pass whose open()
\* succeeded, elapsed the seconds since lastRetryTime

\* what the configuration and the two attach passes leave alone
AttachFrame ==
    UNCHANGED <<coreVars, txHist, oldSide, closing, txdev, mainloop, web, shutdown,
                dtor>>

\* TerminalServerConfig() and loadFromHostConfig for one terminal: the
\* constructor leaves enabled false and names the port /dev/ttyUSB<i>; a
\* "port" key in the terminal's section replaces the name (named: the value
\* is not empty) and sets enabled
AttachLoadConfig(key, named) ==
    /\ termcfg.pc = "config"
    /\ termcfg' = [termcfg EXCEPT !.pc = "startup",
                                !.enabled = key,
                                !.port_named = IF key THEN named ELSE TRUE]
    /\ AttachFrame

\* the device node appears or disappears
AttachNode ==
    /\ termcfg' = [termcfg EXCEPT !.dev_node = ~@]
    /\ AttachFrame

\* main(), the startup pass for the terminal: empty port name, !enabled and a
\* failing access() skip it; open() succeeding (os) attaches the session
AttachStartup(os) ==
    /\ termcfg.pc = "startup"
    /\ termcfg' =
          IF ~termcfg.port_named \/ ~termcfg.enabled \/ ~termcfg.dev_node \/ os # "ok"
          THEN [termcfg EXCEPT !.pc = "run"]
          ELSE [termcfg EXCEPT !.pc = "run", !.session = TRUE,
                              !.opened_by = "startup"]
    /\ AttachFrame

\* one second of the main loop with the retry not yet due
AttachSecond ==
    /\ termcfg.pc = "run" /\ termcfg.elapsed < RETRY_INTERVAL_S
    /\ termcfg' = [termcfg EXCEPT !.elapsed = @ + 1]
    /\ AttachFrame

\* main loop, the retry pass for the terminal once 30 s have passed: a
\* session already attached, an empty port name and a failing access() skip
\* it; open() succeeding (os) attaches the session; lastRetryTime = now
AttachRetry(os) ==
    /\ termcfg.pc = "run" /\ termcfg.elapsed >= RETRY_INTERVAL_S
    /\ termcfg' =
          IF termcfg.session \/ ~termcfg.port_named \/ ~termcfg.dev_node \/ os # "ok"
          THEN [termcfg EXCEPT !.elapsed = 0]
          ELSE [termcfg EXCEPT !.elapsed = 0, !.session = TRUE,
                              !.opened_by = "retry"]
    /\ AttachFrame

\* ------------------------------------- web interface and internal restart
\* web.flag is internalRestartRequested, web.main where the main loop is in
\* its handling of it; ini counts the versions of the INI file written, host
\* and sys are the versions held by the host configuration and applied to
\* the system; reloaded_by and applied_by are the threads that have run
\* host::loadConfigFile and system2200::setConfig; unserved tells that
\* requestInternalRestart has been called and no reload has begun since

\* what the web handlers and the restart handling leave alone
WebFrame ==
    UNCHANGED <<coreVars, txHist, oldSide, closing, txdev, mainloop, shutdown, dtor, termcfg>>

\* WebConfigServer::handlePostConfig on the server thread: the INI file is written
WebPostConfig ==
    /\ web.ini < MaxIni
    /\ web' = [web EXCEPT !.ini = @ + 1]
    /\ WebFrame

\* WebConfigServer::handlePostInternalRestart on the server thread
WebInternalRestart ==
    /\ web' = [web EXCEPT !.flag = TRUE, !.unserved = TRUE]
    /\ WebFrame

\* WebConfigServer::handlePostReloadConfig on the server thread
WebReloadConfig ==
    /\ web' = [web EXCEPT !.host = web.ini,
                          !.reloaded_by = @ \cup {"web"}]
    /\ WebFrame

\* main loop: if (internalRestartRequested)
MainRestartCheck ==
    /\ web.main = "loop" /\ web.flag
    /\ web' = [web EXCEPT !.main = "reload"]
    /\ WebFrame

\* main loop: host::loadConfigFile(iniPath)
MainLoadIni ==
    /\ web.main = "reload"
    /\ web' = [web EXCEPT !.host = web.ini, !.reloaded_by = @ \cup {"main"},
                          !.main = "apply", !.unserved = FALSE]
    /\ WebFrame

\* main loop: newConfig.loadIni(); system2200::setConfig(newConfig)
MainSetConfig ==
    /\ web.main = "apply"
    /\ web' = [web EXCEPT !.sys = web.host, !.applied_by = @ \cup {"main"},
                          !.main = "clear"]
    /\ WebFrame

\* main loop: internalRestartRequested = false
MainClearFlag ==
    /\ web.main = "clear"
    /\ web' = [web EXCEPT !.flag = FALSE, !.main = "loop"]
    /\ WebFrame

\* ------------------------------------------------ signals and shutdown
\* shutdown.main is where main() is ("test": while (running); "body": the
\* iteration; "web", "sessions": the post-loop cleanup; "final": the clean
\* shutdown after the try block), handler where signalHandler is for a
\* SIGINT or SIGTERM; sessions are the terminals with a session object,
\* mux_sessions those bound in the card; exit is the exit code (-1: running)

\* what the signal handler and the shutdown leave alone
ShutFrame ==
    UNCHANGED <<coreVars, txHist, oldSide, closing, txdev, mainloop, web, dtor, termcfg>>

\* while (running)
MainLoopTest ==
    /\ shutdown.exit = -1 /\ shutdown.main = "test"
    /\ shutdown' = [shutdown EXCEPT !.main = IF shutdown.running THEN "body" ELSE "web"]
    /\ ShutFrame

\* the iteration up to the wait: the status dump, the restart request,
\* onIdle() (ok = FALSE: it asks to stop, break)
MainIteration(ok) ==
    /\ shutdown.exit = -1 /\ shutdown.main = "body"
    /\ shutdown' = [shutdown EXCEPT !.dumpStatus = FALSE,
                                    !.main = IF ok THEN "wait" ELSE "web"]
    /\ ShutFrame

\* the rest of the iteration: the wait, the statistics, and the retry that
\* attaches the terminals in S whose device has appeared
MainRetry(S) ==
    /\ shutdown.exit = -1 /\ shutdown.main = "wait"
    /\ S \cap shutdown.sessions = {}
    /\ shutdown' = [shutdown EXCEPT !.sessions = @ \cup S,
                                    !.mux_sessions = @ \cup S,
                                    !.main = "test"]
    /\ ShutFrame

\* post-loop cleanup: the timerfd is closed, the web server stopped
CleanupWeb ==
    /\ shutdown.exit = -1 /\ shutdown.main = "web"
    /\ shutdown' = [shutdown EXCEPT !.webServer = FALSE, !.main = "sessions", !.i = 0]
    /\ ShutFrame

\* post-loop cleanup: setSession(i, nullptr) and sessions[i].reset()
CleanupSession ==
    /\ shutdown.exit = -1 /\ shutdown.main = "sessions"
    /\ shutdown' = IF shutdown.i < 2
                   THEN [shutdown EXCEPT !.mux_sessions = @ \ {shutdown.i},
                                         !.sessions = @ \ {shutdown.i},
                                         !.i = @ + 1]
                   ELSE [shutdown EXCEPT !.main = "final"]
    /\ ShutFrame

\* clean shutdown: system2200::cleanup(), host::terminate(), return 0
MainReturn ==
    /\ shutdown.exit = -1 /\ shutdown.main = "final"
    /\ shutdown' = [shutdown EXCEPT !.exit = 0, !.main = "done"]
    /\ ShutFrame

\* signalHandler(SIGUSR1)
SigUsr1 ==
    /\ shutdown.exit = -1 /\ shutdown.handler = "none" /\ ~shutdown.dumpStatus
    /\ shutdown' = [shutdown EXCEPT !.dumpStatus = TRUE]
    /\ ShutFrame

\* signalHandler(SIGINT or SIGTERM): running = false
SigTerm ==
    /\ shutdown.exit = -1 /\ shutdown.handler = "none"
    /\ shutdown' = [shutdown EXCEPT !.running = FALSE, !.signalled = TRUE,
                                    !.handler = "cleanup"]
    /\ ShutFrame

\* signalHandler: system2200::cleanup() and host::terminate(), errors ignored
SigCleanup ==
    /\ shutdown.exit = -1 /\ shutdown.handler = "cleanup"
    /\ shutdown' = [shutdown EXCEPT !.handler = "exit"]
    /\ ShutFrame

\* signalHandler: exit(0)
SigExit ==
    /\ shutdown.exit = -1 /\ shutdown.handler = "exit"
    /\ shutdown' = [shutdown EXCEPT !.exit = 0, !.handler = "done"]
    /\ ShutFrame

\* ------------------------------- SerialTermSession destroyed, worker running
\* dtor.session is where the destruction of the session is ("alive",
\* "cleared": the destructor's body has cleared the callback, "joining":
\* the port, owned by the session alone, is being destroyed and close()
\* waits for the worker, "returned"); worker is where the port's RX worker
\* is; m_rxCallback tells whether the callback is bound to the session;
\* stale records a call made through a callback already cleared, late a
\* call of onSerialRx after the destructor returned

\* what the destruction of a session leaves alone
DtorFrame ==
    UNCHANGED <<coreVars, txHist, oldSide, closing, txdev, mainloop, web, shutdown, termcfg>>

\* receiveThreadProc: while (!m_stopReceiving && isOpen()), poll, a byte read
DtWorkerRead ==
    /\ ~dtor.terminated /\ dtor.worker = "poll"
    /\ ~dtor.stop /\ dtor.fd /\ dtor.rx < MaxDtorRx
    /\ dtor' = [dtor EXCEPT !.rx = @ + 1, !.worker = "check"]
    /\ DtorFrame

\* receiveThreadProc: the loop test fails or the cancellation pipe is readable
DtWorkerExit ==
    /\ ~dtor.terminated /\ dtor.worker = "poll"
    /\ dtor.stop \/ ~dtor.fd
    /\ dtor' = [dtor EXCEPT !.worker = "exited"]
    /\ DtorFrame

\* receiveThreadProc: the device is lost and not reopened, the descriptor closed
DtWorkerLost ==
    /\ ~dtor.terminated /\ dtor.worker = "poll" /\ dtor.fd
    /\ dtor' = [dtor EXCEPT !.fd = FALSE]
    /\ DtorFrame

\* processReceivedByte: if (m_rxCallback)
DtWorkerCheck ==
    /\ ~dtor.terminated /\ dtor.worker = "check"
    /\ dtor' = [dtor EXCEPT !.worker = IF dtor.m_rxCallback THEN "call" ELSE "poll"]
    /\ DtorFrame

\* processReceivedByte: m_rxCallback(byte). The callback is read without
\* synchronisation: when it was cleared after the test, the call either
\* still reaches onSerialRx of the session (old = TRUE) or throws
\* bad_function_call on the worker, which ends the process
DtWorkerCall(old) ==
    /\ ~dtor.terminated /\ dtor.worker = "call"
    /\ dtor.m_rxCallback => old
    /\ dtor' = IF old
               THEN [dtor EXCEPT !.worker = "in_cb",
                                 !.stale = @ \/ ~dtor.m_rxCallback,
                                 !.late = @ \/ dtor.session = "returned"]
               ELSE [dtor EXCEPT !.terminated = TRUE]
    /\ DtorFrame

\* SerialTermSession::onSerialRx forwards the byte and returns
DtWorkerReturn ==
    /\ ~dtor.terminated /\ dtor.worker = "in_cb"
    /\ dtor' = [dtor EXCEPT !.forwarded = @ + 1, !.worker = "poll"]
    /\ DtorFrame

\* ~SerialTermSession, the body: setReceiveCallback(nullptr)
DtorClear ==
    /\ ~dtor.terminated /\ dtor.session = "alive"
    /\ dtor' = [dtor EXCEPT !.m_rxCallback = FALSE, !.session = "cleared"]
    /\ DtorFrame

\* the members are destroyed: the last reference to the port goes, and
\* ~SerialPort calls close(). On an open port stopReceiving sets the stop
\* flag, writes the pipe and joins; on a closed one close() returns at once
\* and the thread object is destroyed while joinable, which ends the process
DtorReleasePort ==
    /\ ~dtor.terminated /\ dtor.session = "cleared"
    /\ dtor' = IF dtor.fd
               THEN [dtor EXCEPT !.stop = TRUE, !.session = "joining"]
               ELSE [dtor EXCEPT !.terminated = TRUE]
    /\ DtorFrame

\* variant: the destruction ends without waiting for the worker
DtorJoined_NoWait ==
    /\ ~dtor.terminated /\ dtor.session = "joining"
    /\ dtor' = [dtor EXCEPT !.fd = FALSE, !.session = "returned"]
    /\ DtorFrame

\* m_receiveThread.join() returns when the worker has exited; the
\* descriptor is closed and the destructor returns
DtorJoined ==
    /\ ~dtor.terminated /\ dtor.session = "joining" /\ dtor.worker = "exited"
    /\ dtor' = [dtor EXCEPT !.fd = FALSE, !.session = "returned"]
    /\ DtorFrame

\* ------------------------------------- SerialPort: flow control, called raw

\* what a direct call of the port's send functions leaves alone
FlowFrame ==
    UNCHANGED <<m_num_terms, numTerminals, m_uart_sel, m_interrupt_pending,
                rx_in, rx_out, rx_offered, fc_offered, size_at_xoff,
                timers, since_write, since_start, txHist,
                raceVars, busVars, reconnVars, retryVars, lateVars>>

\* sendByte gets its byte onto the TX path: written, or taken by enqueueTx
TxPathTakes(t, os) ==
    /\ t.port.open
    /\ \/ os[1] = 1
       \/ os[1] = -1 /\ Len(t.port.m_outbuf) + 1 <= TxQueueSize

\* the run history after a call of kind k that turned port state t into t1
RunAfterCall(k, t, t1, os) ==
    LET cont == fc_run.kind = k
        hand == IF t1.sent # <<>> \/ t1.port.m_xoffSent # t.port.m_xoffSent THEN 1 ELSE 0
        took == IF hand = 1 /\ TxPathTakes(t, os) THEN 1 ELSE 0
    IN [kind |-> k,
        flag0 |-> IF cont THEN fc_run.flag0 ELSE t.port.m_xoffSent,
        prev_flag |-> t.port.m_xoffSent,
        changed |-> (t1 # t),
        calls |-> IF cont THEN fc_run.calls + 1 ELSE 1,
        handed |-> IF cont THEN fc_run.handed + hand ELSE hand,
        wire |-> IF cont THEN fc_run.wire + took ELSE took]

\* SerialPort::sendXOFF called on the port of channel 0
CallSendXOFF(os) ==
    /\ m_terms[0].serial_port
    /\ fc_run.kind = "xoff" => fc_run.calls < MaxRun
    /\ LET t == Fresh(m_terms)[0]
           t1 == PortSendXOFF(t, os)
       IN /\ m_terms' = [Fresh(m_terms) EXCEPT ![0] = t1]
          /\ fc_run' = RunAfterCall("xoff", t, t1, os)
    /\ FlowFrame

\* SerialPort::sendXON called on the port of channel 0
CallSendXON(os) ==
    /\ m_terms[0].serial_port
    /\ fc_run.kind = "xon" => fc_run.calls < MaxRun
    /\ LET t == Fresh(m_terms)[0]
           t1 == PortSendXON(t, os)
       IN /\ m_terms' = [Fresh(m_terms) EXCEPT ![0] = t1]
          /\ fc_run' = RunAfterCall("xon", t, t1, os)
    /\ FlowFrame

\* SerialPort::sendByte called with a data byte: it ends a run
CallSendByte(b, os) ==
    /\ m_terms[0].serial_port
    /\ m_terms' = [Fresh(m_terms) EXCEPT ![0] = PortSendByte(@, b, os)]
    /\ fc_run' = [kind |-> "none", flag0 |-> FALSE, prev_flag |-> FALSE,
                  changed |-> FALSE, calls |-> 0, handed |-> 0, wire |-> 0]
    /\ FlowFrame

\* --------------------------------------- main(): retry of absent terminals

\* what the main loop's retry and the port's worker leave alone
RetryFrame ==
    UNCHANGED <<txHist, raceVars, busVars, reconnVars, fc_run, lateVars>>

\* the card's state as the retry block leaves it when it attaches nothing
CardIdle ==
    UNCHANGED <<m_num_terms, numTerminals, m_uart_sel, m_interrupt_pending, m_terms,
                rx_in, rx_out, rx_offered, fc_offered, size_at_xoff,
                timers, since_write, since_start>>

\* one second of the main loop with the retry not yet due
LoopSecond ==
    /\ loop.pc = "run" /\ loop.elapsed < RETRY_INTERVAL_S
    /\ loop' = [loop EXCEPT !.elapsed = @ + 1]
    /\ UNCHANGED <<dev_present, port_rx>>
    /\ CardIdle /\ RetryFrame

\* the terminal's adapter is plugged in
DevicePlugged ==
    /\ ~dev_present
    /\ dev_present' = TRUE
    /\ UNCHANGED <<loop, port_rx>>
    /\ CardIdle /\ RetryFrame

\* the retry block, up to the return of serialPort->open(): a terminal with
\* a session is skipped, an absent node or a failed open ends the retry; a
\* successful open has started the port's worker
RetryOpen(os) ==
    /\ loop.pc = "run" /\ loop.elapsed >= RETRY_INTERVAL_S
    /\ loop' = IF loop.session \/ ~dev_present \/ os # "ok"
               THEN [loop EXCEPT !.elapsed = 0]
               ELSE [loop EXCEPT !.pc = "opened", !.opens = @ + 1]
    /\ UNCHANGED <<dev_present, port_rx>>
    /\ CardIdle /\ RetryFrame

\* the rest of the retry block: the SerialTermSession constructor installs
\* the port's receive callback, setSession binds the session to the channel
RetryAttach ==
    /\ loop.pc = "opened"
    /\ SetSession(0, TRUE)
    /\ loop' = [loop EXCEPT !.pc = "run", !.session = TRUE, !.elapsed = 0]
    /\ UNCHANGED <<dev_present, port_rx>>
    /\ RetryFrame

\* the worker of the retried port reads a data byte: processReceivedByte
\* calls the receive callback if one is installed
RetryPortRx(byte) ==
    /\ \/ loop.pc = "opened"
       \/ loop.session /\ m_terms[0].session /\ m_terms[0].port.open
    /\ port_rx' = Append(port_rx, byte)
    /\ IF loop.pc = "opened"
       THEN CardIdle
       ELSE SerialRxByte(0, byte, <<1, 0>>)
    /\ UNCHANGED <<loop, dev_present>>
    /\ RetryFrame

\* ------------------------------------------- the handlers, step by step

\* what the steps of the two threads leave alone
RaceFrame ==
    UNCHANGED <<m_num_terms, numTerminals, m_uart_sel, size_at_xoff,
                timers, since_write, since_start, txHist, busVars, reconnVars, retryVars,
                fc_run, lateVars>>

\* SerialPort::processReceivedByte on the worker thread calls the RX callback:
\* serialRxByte enters queueRxByte, which filters the flow-control bytes
WorkerEnter(ch, byte) ==
    /\ rxw.pc = "idle"
    /\ (m_terms[ch].serial_port \/ m_terms[ch].session) /\ m_terms[ch].port.open
    /\ rxw' = [rxw EXCEPT !.pc = IF byte = 17 \/ byte = 19 THEN "tail" ELSE "room",
                          !.ch = ch, !.byte = byte]
    /\ NoteRx(ch, byte)
    /\ UNCHANGED <<m_terms, m_interrupt_pending, rx_out, emu>>
    /\ RaceFrame

\* queueRxByte: a FIFO at capacity loses its oldest byte
WorkerRoom ==
    /\ rxw.pc = "room"
    /\ m_terms' = [m_terms EXCEPT ![rxw.ch] =
                      IF Len(@.rx_fifo) >= RX_FIFO_MAX
                      THEN [@ EXCEPT !.rx_fifo = Tail(@),
                                     !.rx_overrun_drops = @ + 1]
                      ELSE @]
    /\ rxw' = [rxw EXCEPT !.pc = "push"]
    /\ UNCHANGED <<m_interrupt_pending, rx_in, rx_out, rx_offered, fc_offered, emu>>
    /\ RaceFrame

\* queueRxByte: rx_fifo.push_back(byte)
WorkerPush ==
    /\ rxw.pc = "push"
    /\ m_terms' = [m_terms EXCEPT ![rxw.ch].rx_fifo = Append(@, rxw.byte)]
    /\ rxw' = [rxw EXCEPT !.pc = "xoff"]
    /\ UNCHANGED <<m_interrupt_pending, rx_in, rx_out, rx_offered, fc_offered, emu>>
    /\ RaceFrame

\* queueRxByte: the high-watermark test and sendXOFF
WorkerXoff ==
    /\ rxw.pc = "xoff"
    /\ LET t == Fresh(m_terms)[rxw.ch]
       IN m_terms' = [Fresh(m_terms) EXCEPT ![rxw.ch] =
                         IF Len(t.rx_fifo) >= RX_FIFO_XOFF_THRESHOLD /\ ~t.xoff_sent
                         THEN SendXOFF(t, <<1, 0>>) ELSE t]
    /\ rxw' = [rxw EXCEPT !.pc = "irq_read"]
    /\ UNCHANGED <<m_interrupt_pending, rx_in, rx_out, rx_offered, fc_offered, emu>>
    /\ RaceFrame

\* updateInterrupt on the worker thread: the loop over the FIFOs
WorkerIrqRead ==
    /\ rxw.pc = "irq_read"
    /\ rxw' = [rxw EXCEPT !.pc = "irq_write",
                          !.has = UpdateInterrupt(m_terms, m_num_terms)]
    /\ UNCHANGED <<m_terms, m_interrupt_pending, rx_in, rx_out, rx_offered,
                   fc_offered, emu>>
    /\ RaceFrame

\* updateInterrupt on the worker thread: m_interrupt_pending = has_rx_data
WorkerIrqWrite ==
    /\ rxw.pc = "irq_write"
    /\ m_interrupt_pending' = rxw.has
    /\ rxw' = [rxw EXCEPT !.pc = "tail"]
    /\ UNCHANGED <<m_terms, rx_in, rx_out, rx_offered, fc_offered, emu>>
    /\ RaceFrame

\* serialRxByte after queueRxByte has returned
WorkerTail ==
    /\ rxw.pc = "tail"
    /\ m_terms' = [Fresh(m_terms) EXCEPT ![rxw.ch] = SerialRxTail(@, <<1, 0>>)]
    /\ rxw' = [rxw EXCEPT !.pc = "idle"]
    /\ UNCHANGED <<m_interrupt_pending, rx_in, rx_out, rx_offered, fc_offered, emu>>
    /\ RaceFrame

\* IN_UART_DATA on the emulator thread: the test !rx_fifo.empty()
EmuEnter ==
    /\ emu.pc = "idle"
    /\ emu' = IF m_terms[m_uart_sel].rx_fifo # <<>>
              THEN [emu EXCEPT !.pc = "front", !.ch = m_uart_sel]
              ELSE [emu EXCEPT !.pc = "irq_read", !.ch = m_uart_sel, !.rv = 0]
    /\ UNCHANGED <<m_terms, m_interrupt_pending, rx_in, rx_out, rx_offered,
                   fc_offered, rxw>>
    /\ RaceFrame

\* IN_UART_DATA: rv = rx_fifo.front()
EmuFront ==
    /\ emu.pc = "front"
    /\ m_terms[emu.ch].rx_fifo # <<>>
    /\ emu' = [emu EXCEPT !.pc = "pop", !.rv = Head(m_terms[emu.ch].rx_fifo)]
    /\ UNCHANGED <<m_terms, m_interrupt_pending, rx_in, rx_out, rx_offered,
                   fc_offered, rxw>>
    /\ RaceFrame

\* IN_UART_DATA: rx_fifo.pop_front()
EmuPop ==
    /\ emu.pc = "pop"
    /\ m_terms[emu.ch].rx_fifo # <<>>
    /\ m_terms' = [m_terms EXCEPT ![emu.ch].rx_fifo = Tail(@)]
    /\ rx_out' = [rx_out EXCEPT ![emu.ch] = Append(@, emu.rv)]
    /\ emu' = [emu EXCEPT !.pc = "fc"]
    /\ UNCHANGED <<m_interrupt_pending, rx_in, rx_offered, fc_offered, rxw>>
    /\ RaceFrame

\* IN_UART_DATA: checkAndSendFlowControl
EmuFlowControl ==
    /\ emu.pc = "fc"
    /\ m_terms' = [Fresh(m_terms) EXCEPT ![emu.ch] =
                      CheckAndSendFlowControl(@, <<1, 0>>)]
    /\ emu' = [emu EXCEPT !.pc = "irq_read"]
    /\ UNCHANGED <<m_interrupt_pending, rx_in, rx_out, rx_offered, fc_offered, rxw>>
    /\ RaceFrame

\* updateInterrupt on the emulator thread: the loop over the FIFOs
EmuIrqRead ==
    /\ emu.pc = "irq_read"
    /\ emu' = [emu EXCEPT !.pc = "irq_write",
                          !.has = UpdateInterrupt(m_terms, m_num_terms)]
    /\ UNCHANGED <<m_terms, m_interrupt_pending, rx_in, rx_out, rx_offered,
                   fc_offered, rxw>>
    /\ RaceFrame

\* updateInterrupt on the emulator thread: m_interrupt_pending = has_rx_data
EmuIrqWrite ==
    /\ emu.pc = "irq_write"
    /\ m_interrupt_pending' = emu.has
    /\ emu' = [emu EXCEPT !.pc = "idle"]
    /\ UNCHANGED <<m_terms, rx_in, rx_out, rx_offered, fc_offered, rxw>>
    /\ RaceFrame

\* ------------------------------------------------------- specifications

\* the RX path alone: bytes arrive and the firmware reads them, every write to
\* the device succeeding at once and no transport coming or going
NextFifo ==
    \/ \E ch \in Channels, b \in Bytes :
          rx_offered < MaxRx /\ SerialRxByte(ch, b, <<1, 0>>) /\ UNCHANGED extraVars
    \/ \E ch \in Channels, k \in Bytes :
          rx_offered < MaxRx /\ ReceiveKeystroke(ch, k, <<1, 0>>) /\ UNCHANGED extraVars
    \/ \E ch \in Channels, b \in Bytes :
          rx_offered < MaxRx /\ ch < m_num_terms /\ SerialToMxdRx(ch, b, <<1, 0>>) /\ UNCHANGED extraVars
    \/ ReadUartData(<<1, 0>>) /\ UNCHANGED extraVars
    \/ \E byte \in {1, 2, 4, 8} : OutUartSel(byte) /\ UNCHANGED extraVars

\* configurations that use the first two channels
InitTwo == Init /\ m_num_terms <= 2 /\ numTerminals <= 2

\* two configured terminals: a COM port on channel 0, a GUI terminal on channel 1
InitFifo ==
    /\ Init
    /\ m_num_terms = 2 /\ numTerminals = 1
    /\ m_terms[0].serial_port /\ ~m_terms[1].serial_port

SpecFifo == InitFifo /\ [][NextFifo]_vars

\* batches of up to MaxBatch bytes, flow-control values among them
BatchData ==
    UNION {[1..n -> {65, XON}] : n \in 1..MaxBatch}

\* the RX path with the batch entry beside the single-byte entries
NextBatch ==
    \/ \E ch \in Channels :
          rx_offered < MaxRx /\ SerialRxByte(ch, 65, <<1, 0>>) /\ UNCHANGED extraVars
    \/ \E ch \in Channels :
          rx_offered < MaxRx /\ ReceiveKeystroke(ch, 65, <<1, 0>>) /\ UNCHANGED extraVars
    \/ \E ch \in Channels, data \in BatchData :
          /\ ch <= m_num_terms
          /\ rx_offered + Len(data) <= MaxRx
          /\ QueueRxBytesCall(ch, data)
          /\ UNCHANGED extraVars
    \/ ReadUartData(<<1, 0>>) /\ UNCHANGED extraVars
    \/ \E byte \in {1, 2, 4, 8} : OutUartSel(byte) /\ UNCHANGED extraVars

\* one configured terminal; batches reach it and the channel after it
InitBatch == Init /\ m_num_terms = 1 /\ numTerminals = 1

SpecBatch == InitBatch /\ [][NextBatch]_vars

\* the TX path: firmware writes, virtual time, timer callbacks, the kernel
\* taking or refusing bytes, transports attached and lost
NextTx ==
    \/ \E byte \in {1, 2, 4} : OutUartSel(byte) /\ UNCHANGED extraVars
    \/ \E byte \in TxBytes : OutUartData(byte) /\ UNCHANGED extraVars
    \/ AdvanceTime /\ UNCHANGED extraVars
    \/ \E os \in OsOutcomes : TimerFire(os) /\ UNCHANGED extraVars
    \/ \E ch \in Channels : PortFlush(ch, 1) /\ UNCHANGED extraVars
    \/ \E ch \in Channels, a \in BOOLEAN : SetSession(ch, a) /\ UNCHANGED extraVars
    \/ \E ch \in Channels : PortLost(ch) /\ UNCHANGED extraVars

SpecTx == InitFifo /\ [][NextTx]_vars

\* the TX path of one terminal with its histories: what the firmware got
\* accepted, what the callback handed over, and whether a session was bound to
\* the idle channel and has stayed active since
NextSess ==
    \/ \E byte \in {1, 2} : OutUartSel(byte) /\ UNCHANGED extraVars
    \/ \E byte \in TxBytes :
          /\ (m_uart_sel < m_num_terms /\ m_terms[m_uart_sel].tx_ready)
                => Len(tx_accepted[m_uart_sel]) < MaxTx
          /\ OutUartData(byte)
          /\ tx_accepted' =
                IF m_uart_sel < m_num_terms /\ m_terms[m_uart_sel].tx_ready
                THEN [tx_accepted EXCEPT ![m_uart_sel] = Append(@, byte)]
                ELSE tx_accepted
          /\ UNCHANGED <<tx_handed, tx_stable, sideVars>>
    \/ AdvanceTime /\ UNCHANGED extraVars
    \/ \E os \in OsOutcomes :
          /\ TimerFire(os)
          /\ tx_handed' = [n \in Channels |-> tx_handed[n] \o m_terms'[n].sent]
          /\ UNCHANGED <<tx_accepted, tx_stable, sideVars>>
    \/ \E ch \in Channels : PortFlush(ch, 1) /\ UNCHANGED extraVars
    \/ \E ch \in Channels, a \in BOOLEAN :
          /\ SetSession(ch, a)
          /\ tx_accepted' = [tx_accepted EXCEPT ![ch] = <<>>]
          /\ tx_handed' = [tx_handed EXCEPT ![ch] = <<>>]
          /\ tx_stable' = [tx_stable EXCEPT ![ch] = a /\ m_terms[ch].tx_ready]
          /\ UNCHANGED sideVars
    \/ \E ch \in Channels :
          /\ PortLost(ch)
          /\ tx_stable' = [tx_stable EXCEPT ![ch] = FALSE]
          /\ UNCHANGED <<tx_accepted, tx_handed, sideVars>>

\* one configured terminal, with or without a COM port of the card
InitSess == Init /\ m_num_terms = 1 /\ numTerminals = 1

SpecSess == InitSess /\ [][NextSess]_vars

\* the host's bus cycles and the firmware's accesses to the bus-side ports
NextBus ==
    \/ \E ab \in 0..7 : Select(ab)
    \/ Deselect
    \/ \E val \in StrobeBytes : StrobeOBS(val)
    \/ \E val \in StrobeBytes : StrobeCBS(val)
    \/ \E busy \in BOOLEAN : SetCpuBusy(busy)
    \/ Reset
    \/ In2200Status
    \/ InObusN
    \/ InObscbsAddr
    \/ OutClrPrime
    \/ \E byte \in RbiBytes : OutRbi(byte)

\* the card as constructed, with one terminal configured
InitBus == Init /\ m_num_terms = 1 /\ numTerminals = 1 /\ m_terms[0].serial_port

SpecBus == InitBus /\ [][NextBus]_vars

\* one serial port: its owner opens and closes it, its worker meets read
\* errors, the device node comes and goes
NextReconn ==
    \/ \E os \in {"ok", "fail"} : SerialPortOpen(os)
    \/ SerialPortClose
    \/ \E os \in {"ok", "fail"} : ReceiveError(os)
    \/ NodeChange
    \/ \E n \in 0..MaxProbe : ProbeDelay(n)

\* a port object as constructed: closed, no worker, no attempt counted
InitReconn == InitBus /\ ~sp.fd_open /\ sp.m_reconnectAttempts = 0

SpecReconn == InitReconn /\ [][NextReconn]_vars

\* one port: opened, bytes queued, its worker running, close() called
NextClose ==
    \/ ClOpen
    \/ ClEnqueue
    \/ ClNode
    \/ WorkerLoopTest
    \/ WorkerPollTimeout
    \/ WorkerPollCancel
    \/ WorkerDispatch
    \/ WorkerDispatchDone
    \/ WorkerFlush
    \/ WorkerReadError
    \/ \E os \in {"ok", "fail"} : WorkerReconnect(os)
    \/ CloseCall
    \/ CloseJoined

\* close() and open() on one SerialPort object, over and over
NextReopen ==
    \/ NextClose
    \/ ClReopen

SpecReopen == InitBus /\ [][NextReopen]_vars

\* one terminal from its configuration through startup and the retry passes
NextAttach ==
    \/ \E key \in BOOLEAN, named \in BOOLEAN : AttachLoadConfig(key, named)
    \/ AttachNode
    \/ \E os \in {"ok", "fail"} : AttachStartup(os)
    \/ AttachSecond
    \/ \E os \in {"ok", "fail"} : AttachRetry(os)

SpecAttach == InitBus /\ [][NextAttach]_vars

\* both threads keep running: every step of the worker and the return of
\* the join happen if they stay possible
CloseFairness ==
    /\ WF_vars(WorkerLoopTest)
    /\ WF_vars(WorkerPollTimeout \/ WorkerPollCancel)
    /\ WF_vars(WorkerDispatchDone)
    /\ WF_vars(\E os \in {"ok", "fail"} : WorkerReconnect(os))
    /\ WF_vars(CloseJoined)

SpecClose == InitBus /\ [][NextClose]_vars /\ CloseFairness

\* one open port: the emulator thread sending, the device draining, the
\* worker flushing and receiving
NextDev ==
    \/ DevSendByte
    \/ DevSendData
    \/ DevWriteReturns
    \/ DevDrain
    \/ DevWorkerFlush
    \/ DevWorkerRx

SpecDev == InitBus /\ [][NextDev]_vars

\* the TX path with the calls that empty the buffer and the worker's failed
\* reconnect
NextQueue ==
    \/ NextDev
    \/ DevReconnectFails
    \/ DevClose
    \/ DevFlushTxQueue

SpecQueue == InitBus /\ [][NextQueue]_vars

\* the main loop's iterations: work, slice, deadline, wait
NextMain ==
    \/ \E dt \in IdleTimes : MainIdle(dt)
    \/ SliceAhead
    \/ CatchupEnter
    \/ CatchupStep
    \/ \E t \in TimerReports : MainDeadline(t)
    \/ \E early \in BOOLEAN : MainWait(early)

SpecMain == InitBus /\ [][NextMain]_vars

\* the web server's thread handling requests while the main loop runs
NextWeb ==
    \/ WebPostConfig
    \/ WebInternalRestart
    \/ WebReloadConfig
    \/ MainRestartCheck
    \/ MainLoadIni
    \/ MainSetConfig
    \/ MainClearFlag

SpecWeb == InitBus /\ [][NextWeb]_vars

\* the main loop keeps iterating (no wait is longer than 50 ms): each step
\* of its restart handling happens if it stays possible
SpecRestart ==
    /\ SpecWeb
    /\ WF_vars(MainRestartCheck)
    /\ WF_vars(MainLoadIni)
    /\ WF_vars(MainSetConfig)
    /\ WF_vars(MainClearFlag)

\* the main loop and its cleanup, with signals arriving at any point
NextShut ==
    \/ MainLoopTest
    \/ \E ok \in BOOLEAN : MainIteration(ok)
    \/ \E S \in SUBSET {0, 1} : MainRetry(S)
    \/ CleanupWeb
    \/ CleanupSession
    \/ MainReturn
    \/ SigUsr1
    \/ SigTerm
    \/ SigCleanup
    \/ SigExit

SpecShut == InitBus /\ [][NextShut]_vars

\* a session destroyed on the main thread while its port's worker runs
NextDtor ==
    \/ DtWorkerRead
    \/ DtWorkerExit
    \/ DtWorkerLost
    \/ DtWorkerCheck
    \/ \E old \in BOOLEAN : DtWorkerCall(old)
    \/ DtWorkerReturn
    \/ DtorClear
    \/ DtorReleasePort
    \/ DtorJoined

SpecDtor == InitBus /\ [][NextDtor]_vars

\* the bus with a host that strobes only when selected and ready
NextHost ==
    \/ \E ab \in 0..7 : Select(ab)
    \/ Deselect
    \/ \E val \in StrobeBytes : HostStrobeOBS(val)
    \/ \E val \in StrobeBytes : HostStrobeCBS(val)
    \/ \E busy \in BOOLEAN : SetCpuBusy(busy)
    \/ Reset
    \/ In2200Status
    \/ InObusN
    \/ InObscbsAddr
    \/ OutClrPrime
    \/ \E byte \in RbiBytes : OutRbi(byte)

SpecHost == InitBus /\ [][NextHost]_vars

\* the send functions of one port called in any order, its worker flushing
\* the TX buffer, the device going away
NextFlow ==
    \/ \E os \in OsOutcomes : CallSendXOFF(os)
    \/ \E os \in OsOutcomes : CallSendXON(os)
    \/ \E os \in OsOutcomes : CallSendByte(65, os)
    \/ PortFlush(0, 1) /\ UNCHANGED extraVars
    \/ PortLost(0) /\ UNCHANGED extraVars

\* one configured terminal on an open COM port of the card
InitFlow ==
    /\ Init
    /\ m_num_terms = 1 /\ numTerminals = 1
    /\ m_terms[0].serial_port /\ m_terms[0].port.open

SpecFlow == InitFlow /\ [][NextFlow]_vars

\* the main loop's retry of terminal 0, absent at startup, and the worker
\* of the port the retry opens
NextRetry ==
    \/ LoopSecond
    \/ DevicePlugged
    \/ \E os \in {"ok", "fail"} : RetryOpen(os)
    \/ RetryAttach
    \/ \E byte \in DataBytes : Len(port_rx) < MaxRetryRx /\ RetryPortRx(byte)
    \/ ReadUartData(<<1, 0>>) /\ UNCHANGED extraVars

\* terminal 0 configured, its device node absent, so no session at startup
InitRetry ==
    /\ Init
    /\ m_num_terms = 1 /\ numTerminals = 1
    /\ ~m_terms[0].serial_port /\ ~m_terms[0].session

SpecRetry == InitRetry /\ [][NextRetry]_vars

\* the RX worker of the card's COM port and the emulator thread, interleaved
\* at every FIFO access and between the two halves of updateInterrupt
NextRace ==
    \/ \E b \in Bytes : rx_offered < MaxRaceRx /\ WorkerEnter(0, b)
    \/ WorkerRoom
    \/ WorkerPush
    \/ WorkerXoff
    \/ WorkerIrqRead
    \/ WorkerIrqWrite
    \/ WorkerTail
    \/ EmuEnter
    \/ EmuFront
    \/ EmuPop
    \/ EmuFlowControl
    \/ EmuIrqRead
    \/ EmuIrqWrite

\* one configured terminal on a COM port of the card
InitRace ==
    /\ Init
    /\ m_num_terms = 1 /\ numTerminals = 1
    /\ m_terms[0].serial_port

SpecRace == InitRace /\ [][NextRace]_vars

\* the RX path with its flow control: one data value, transports attached,
\* and lost
Next ==
    \/ \E ch \in Channels :
          rx_offered < MaxFlowRx /\ SerialRxByte(ch, 65, <<1, 0>>) /\ UNCHANGED extraVars
    \/ \E ch \in Channels :
          rx_offered < MaxFlowRx /\ ReceiveKeystroke(ch, 65, <<1, 0>>) /\ UNCHANGED extraVars
    \/ ReadUartData(<<1, 0>>) /\ UNCHANGED extraVars
    \/ \E byte \in {1, 2, 4, 8} : OutUartSel(byte) /\ UNCHANGED extraVars
    \/ \E ch \in Channels, a \in BOOLEAN : SetSession(ch, a) /\ UNCHANGED extraVars
    \/ \E ch \in Channels : PortLost(ch) /\ UNCHANGED extraVars

Spec == InitTwo /\ [][Next]_vars

\* the card with a firmware that keeps reading port 0x06
SpecXon == InitTwo /\ [][Next]_vars
               /\ WF_vars(ReadUartData(<<1, 0>>) /\ UNCHANGED extraVars)

\* ------------------------------------------------------------- properties

\* C1: per channel, as long as no more than RX_FIFO_MAX bytes were pushed, the
\* bytes read so far followed by the bytes still queued are exactly the bytes
\* pushed, in push order, whatever was pushed to the other channels
C1_FifoOrder ==
    \A ch \in Channels :
        Len(rx_in[ch]) <= RX_FIFO_MAX =>
            rx_out[ch] \o m_terms[ch].rx_fifo = rx_in[ch]

\* a full sequence of mixed bytes was pushed and read back whole while another
\* channel received a byte too
C1_Witness ==
    \E ch \in Channels, other \in Channels :
        /\ ch # other
        /\ Len(rx_in[ch]) = RX_FIFO_MAX
        /\ rx_in[ch][1] # rx_in[ch][2]
        /\ rx_out[ch] = rx_in[ch]
        /\ m_terms[ch].rx_fifo = <<>>
        /\ rx_in[other] # <<>>

\* C2: with no read in between, after n pushes the FIFO holds the last
\* min(n, RX_FIFO_MAX) bytes pushed, in order, and rx_overrun_drops counts the
\* n - RX_FIFO_MAX bytes that fell out
C2_OverrunKeepsNewest ==
    \A ch \in Channels :
        rx_out[ch] = <<>> =>
            LET n == Len(rx_in[ch])
                k == IF n > RX_FIFO_MAX THEN n - RX_FIFO_MAX ELSE 0
            IN /\ m_terms[ch].rx_fifo = SubSeq(rx_in[ch], k + 1, n)
               /\ m_terms[ch].rx_overrun_drops = k

\* one byte more than the capacity was pushed and the oldest, a different
\* value from its successor, fell out
C2_Witness ==
    \E ch \in Channels :
        /\ rx_out[ch] = <<>>
        /\ Len(rx_in[ch]) > RX_FIFO_MAX
        /\ rx_in[ch][1] # rx_in[ch][2]
        /\ m_terms[ch].rx_overrun_drops = Len(rx_in[ch]) - RX_FIFO_MAX
        /\ Len(m_terms[ch].rx_fifo) = RX_FIFO_MAX

\* C3: in any sequence of queueRxByte, queueRxBytes and reads of port 0x06 no
\* channel's rx_fifo ever holds more than RX_FIFO_MAX bytes
C3_FifoBounded ==
    \A ch \in Channels : Len(m_terms[ch].rx_fifo) <= RX_FIFO_MAX

\* a batch has filled a FIFO to capacity, with bytes lost to the overrun
C3_Witness ==
    \E ch \in Channels :
        /\ Len(m_terms[ch].rx_fifo) = RX_FIFO_MAX
        /\ \E i \in 1..RX_FIFO_MAX : m_terms[ch].rx_fifo[i] = XON
        /\ m_terms[ch].rx_overrun_drops > 0

\* pushing a flow-control byte at an RX entry leaves every FIFO and every
\* overrun counter as it was
C4_Frame ==
    \A ch \in Channels, b \in FlowBytes :
        (\/ SerialRxByte(ch, b, <<1, 0>>)
         \/ SerialToMxdRx(ch, b, <<1, 0>>)
         \/ ReceiveKeystroke(ch, b, <<1, 0>>)) =>
            \A n \in Channels :
                /\ m_terms'[n].rx_fifo = m_terms[n].rx_fifo
                /\ m_terms'[n].rx_overrun_drops = m_terms[n].rx_overrun_drops

\* no FIFO holds 0x11 or 0x13 and no read of port 0x06 has returned one
C4_NoFlowByteStored ==
    \A ch \in Channels :
        /\ \A i \in 1..Len(m_terms[ch].rx_fifo) : m_terms[ch].rx_fifo[i] \notin FlowBytes
        /\ \A i \in 1..Len(rx_out[ch]) : rx_out[ch][i] \notin FlowBytes

\* C4: a byte 0x11 or 0x13 offered to the RX entry is never stored in the FIFO
\* and never returned by a read; the FIFO contents and rx_overrun_drops are
\* unchanged by it
C4_FlowBytesFiltered == [](C4_NoFlowByteStored) /\ [][C4_Frame]_vars

\* a flow-control byte was offered while data was queued, and data was read
C4_Witness ==
    /\ fc_offered
    /\ \E ch \in Channels : m_terms[ch].rx_fifo # <<>> /\ rx_out[ch] # <<>>

\* C5: interrupt_pending equals the OR, over all four channels, of "the
\* channel's rx_fifo is non-empty", for every configured number of terminals
C5_InterruptIsOrOfAllFifos ==
    m_interrupt_pending = (\E ch \in Channels : m_terms[ch].rx_fifo # <<>>)

\* the channel has a transport that takes bytes
TransportActive(t) ==
    (t.serial_port /\ t.port.open) \/ (t.session /\ SessionIsActive(t))

\* a byte reached queueRxByte of channel ch in this step
PushOn(ch) == rx_in'[ch] # rx_in[ch]

\* a read of port 0x06 popped a byte of channel ch in this step
PopOn(ch) == rx_out'[ch] # rx_out[ch]

C6_Step ==
    \A ch \in Channels :
        PushOn(ch) =>
            /\ (/\ TransportActive(m_terms[ch])
                /\ ~m_terms[ch].xoff_sent
                /\ Len(m_terms'[ch].rx_fifo) >= RX_FIFO_XOFF_THRESHOLD)
               => /\ m_terms'[ch].sent = <<XOFF>>
                  /\ m_terms'[ch].xoff_sent
                  /\ m_terms'[ch].xoff_sent_count = m_terms[ch].xoff_sent_count + 1
            /\ m_terms[ch].xoff_sent
               => /\ \A i \in 1..Len(m_terms'[ch].sent) : m_terms'[ch].sent[i] # XOFF
                  /\ m_terms'[ch].xoff_sent_count = m_terms[ch].xoff_sent_count

\* C6: with an active transport and xoff_sent false, the push that brings the
\* FIFO to the high watermark or above emits exactly one XOFF, sets xoff_sent
\* and adds one to xoff_sent_count; a push made while xoff_sent is true emits
\* no XOFF
C6_XoffOnceAtHighWater == [][C6_Step]_vars

\* the push that reached the high watermark has just emitted the one XOFF
C6_Witness ==
    \E ch \in Channels :
        /\ m_terms[ch].sent = <<XOFF>>
        /\ m_terms[ch].did_xoff
        /\ Len(m_terms[ch].rx_fifo) = RX_FIFO_XOFF_THRESHOLD
        /\ m_terms[ch].xoff_sent
        /\ m_terms[ch].xoff_sent_count = 1

C7_Step ==
    \A ch \in Channels :
        (PopOn(ch) /\ m_terms[ch].xoff_sent /\ TransportActive(m_terms[ch])) =>
            IF Len(m_terms'[ch].rx_fifo) <= RX_FIFO_XON_THRESHOLD
            THEN /\ m_terms'[ch].sent = <<XON>>
                 /\ ~m_terms'[ch].xoff_sent
                 /\ m_terms'[ch].xon_sent_count = m_terms[ch].xon_sent_count + 1
            ELSE /\ m_terms'[ch].sent = <<>>
                 /\ m_terms'[ch].xoff_sent
                 /\ m_terms'[ch].xon_sent_count = m_terms[ch].xon_sent_count

\* C7: with xoff_sent true and an active transport, the read of port 0x06 that
\* brings the FIFO to the low watermark or below emits exactly one XON, clears
\* xoff_sent and adds one to xon_sent_count; a read that leaves the FIFO above
\* the low watermark emits nothing
C7_XonOnceAtLowWater == [][C7_Step]_vars

\* the channel was filled to the high watermark and read down to the low one,
\* where that read emitted the XON
C7_Witness ==
    \E ch \in Channels :
        /\ Len(rx_in[ch]) = RX_FIFO_XOFF_THRESHOLD
        /\ Len(m_terms[ch].rx_fifo) = RX_FIFO_XON_THRESHOLD
        /\ m_terms[ch].sent = <<XON>>
        /\ ~m_terms[ch].tail_xon
        /\ ~m_terms[ch].xoff_sent
        /\ m_terms[ch].xoff_sent_count = 1
        /\ m_terms[ch].xon_sent_count = 1

\* whenever xoff_sent is true the FIFO was at the high watermark or above at
\* the latest sendXOFF
C8_XoffAtHighWater ==
    \A ch \in Channels :
        m_terms[ch].xoff_sent => size_at_xoff[ch] >= RX_FIFO_XOFF_THRESHOLD

C8_DropOnlyInPop ==
    \A ch \in Channels :
        (m_terms[ch].xoff_sent /\ ~m_terms'[ch].xoff_sent) =>
            /\ PopOn(ch)
            /\ ~PushOn(ch)
            /\ m_terms'[ch].sent = <<XON>>
            /\ Len(m_terms'[ch].rx_fifo) <= RX_FIFO_XON_THRESHOLD

\* C8 as stated: xoff_sent true implies the FIFO was at or above the high
\* watermark at the latest sendXOFF, and xoff_sent turns false only through
\* sendXON during a pop at or below the low watermark, never during an RX push
C8_AsStated == [](C8_XoffAtHighWater) /\ [][C8_DropOnlyInPop]_vars

C8_DropInPopOrSerialPush ==
    \A ch \in Channels :
        (m_terms[ch].xoff_sent /\ ~m_terms'[ch].xoff_sent) =>
            /\ m_terms'[ch].sent = <<XON>>
            /\ m_terms'[ch].xon_sent_count = m_terms[ch].xon_sent_count + 1
            /\ Len(m_terms'[ch].rx_fifo) <= RX_FIFO_XON_THRESHOLD
            /\ \/ PopOn(ch) /\ ~PushOn(ch)
               \/ PushOn(ch) /\ m_terms'[ch].tail_xon /\ ~PopOn(ch)

\* C8, amended: xoff_sent true implies the FIFO was at or above the high
\* watermark at the latest sendXOFF, and xoff_sent turns false only through
\* sendXON with the FIFO at or below the low watermark, during a pop or at the
\* end of a serialRxByte push
C8_XoffSentProtocol == [](C8_XoffAtHighWater) /\ [][C8_DropInPopOrSerialPush]_vars

\* a serialRxByte push has just sent the XON and cleared xoff_sent
C8_Witness ==
    \E ch \in Channels :
        /\ m_terms[ch].tail_xon
        /\ m_terms[ch].sent = <<XON>>
        /\ ~m_terms[ch].xoff_sent
        /\ m_terms[ch].rx_fifo # <<>>

\* this step is a timer callback
InTimerCallback == \E os \in OsOutcomes : TimerFire(os)

C9_AfterAnyWrite ==
    \A ch \in Channels :
        (~m_terms[ch].tx_ready /\ m_terms'[ch].tx_ready) =>
            /\ since_write[ch] >= SERIAL_CHAR_DELAY
            /\ InTimerCallback

\* C9 as stated: between any firmware write to port 0x06 and the next moment
\* tx_ready becomes true at least one SERIAL_CHAR_DELAY of virtual time
\* elapses, and tx_ready is set true only inside mxdToTermCallback
C9_AsStated == [][C9_AfterAnyWrite]_vars

C9_AfterStartingWrite ==
    \A ch \in Channels :
        (~m_terms[ch].tx_ready /\ m_terms'[ch].tx_ready) =>
            /\ since_start[ch] >= SERIAL_CHAR_DELAY
            /\ InTimerCallback

\* C9, amended: between a firmware write to port 0x06 made while no tx timer
\* is pending (the write that starts the character timer) and the next moment
\* tx_ready becomes true at least one SERIAL_CHAR_DELAY of virtual time
\* elapses, and tx_ready is set true only inside mxdToTermCallback
C9_TxReadyAfterCharTime == [][C9_AfterStartingWrite]_vars

\* a callback has just delivered a byte and set tx_ready a full character time
\* after the write that started the timer, less than that after a later write
C9_Witness ==
    \E ch \in Channels :
        /\ m_terms[ch].tx_ready
        /\ m_terms[ch].sent # <<>>
        /\ since_start[ch] = SERIAL_CHAR_DELAY
        /\ since_write[ch] < SERIAL_CHAR_DELAY

\* the pending timers of channel ch
TimersOf(ch) == {i \in 1..Len(timers) : timers[i].ch = ch}

\* C10: for every channel, tx_ready false implies a tx timer is pending for
\* the channel, and no channel ever has more than one tx timer outstanding,
\* the reschedules of the backpressure gate included
C10_OneTimerWhileBusy ==
    \A ch \in Channels :
        /\ ~m_terms[ch].tx_ready =>
               (m_terms[ch].tx_tmr /\ Cardinality(TimersOf(ch)) = 1)
        /\ Cardinality(TimersOf(ch)) <= 1

\* the gate has re-armed the callback: the character time is over, the TX
\* queue is above the gate, tx_ready is still false and one timer is pending
C10_Witness ==
    \E ch \in Channels :
        /\ ~m_terms[ch].tx_ready
        /\ since_start[ch] = SERIAL_CHAR_DELAY
        /\ TxQueueOverGate(m_terms[ch])
        /\ \E i \in TimersOf(ch) : timers[i].left = TX_GATE_DELAY

\* the byte of the channel's pending timer, if there is one
PendingByte(ch) ==
    IF m_terms[ch].tx_ready THEN <<>>
    ELSE [i \in 1..Cardinality(TimersOf(ch)) |->
             timers[CHOOSE j \in TimersOf(ch) : TRUE].byte]

TxQueueAtGate(t) == Len(t.port.m_outbuf) * 10 >= 9 * TxQueueSize

\* the timer of channel ch fires in this step
FiresOn(ch) ==
    /\ InTimerCallback
    /\ timers[FirstDue(timers)].ch = ch

C12_GateStep ==
    \A ch \in Channels :
        (/\ DueTimers(timers) # {}
         /\ FiresOn(ch)
         /\ TransportActive(m_terms[ch])
         /\ TxQueueAtGate(m_terms[ch]))
        => /\ m_terms'[ch].sent = <<>>
           /\ ~m_terms'[ch].tx_ready
           /\ \E i \in 1..Len(timers') : timers'[i].ch = ch

\* C12: when a channel's tx timer fires while the TX queue of its bound
\* transport, the card-owned port or the port behind a session, is at or
\* above 90 % of capacity, no byte is handed to the transport, tx_ready stays
\* false and the callback is pending again
C12_GateHoldsEveryTransport == [][C12_GateStep]_vars

\* C13: whenever the RX worker's serialRxByte and the emulator's read of port
\* 0x06 have both completed, interrupt_pending equals the OR of the FIFOs'
\* non-emptiness and every byte pushed was read once or is still queued
C13_RaceFree ==
    (rxw.pc = "idle" /\ emu.pc = "idle") =>
        /\ m_interrupt_pending = (\E ch \in Channels : m_terms[ch].rx_fifo # <<>>)
        /\ \A ch \in Channels : rx_out[ch] \o m_terms[ch].rx_fifo = rx_in[ch]

\* C14: while the card is selected at an offset in 1..7, after select,
\* strobeOBS, strobeCBS, a read of port 0x02 or a write of port 0x07 the
\* host's device-ready line is NOT(((obs_seen OR cbs_seen) AND offset >= 4)
\* OR bit (offset - 1) of rbi)
C14_DevRdyIsNotBusy ==
    (bus.m_selected /\ bus.m_io_offset \in 1..7 /\ bus_op) =>
        dev_rdy = ~( \/ (bus.m_obs_seen \/ bus.m_cbs_seen) /\ bus.m_io_offset >= 4
                     \/ Bit(bus.m_rbi, bus.m_io_offset - 1) = 1 )

\* a strobe at offset 4 makes a card busy whose rbi bit says ready
C14_Witness ==
    /\ bus.m_selected /\ bus.m_io_offset = 4 /\ bus_op
    /\ bus.m_obs_seen /\ Bit(bus.m_rbi, 3) = 0 /\ ~dev_rdy

\* C15: after select at offset k in 1..7 and strobeOBS(v), a read of port
\* 0x01 has bit 0 and bit 4 set and k in bits 7:5; the next read of port 0x02
\* returns (NOT v) AND 0xFF and clears obs_seen and cbs_seen, and the read
\* of port 0x01 after it has bits 0 and 1 clear
C15_ObsHandshake ==
    /\ obs_run.stage = 3 =>
          /\ Bit(bus_rv, 0) = 1 /\ Bit(bus_rv, 4) = 1
          /\ bus_rv \div 32 = obs_run.k
    /\ obs_run.stage = 4 =>
          /\ bus_rv = 255 - obs_run.v
          /\ ~bus.m_obs_seen /\ ~bus.m_cbs_seen
    /\ obs_run.stage = 5 =>
          Bit(bus_rv, 0) = 0 /\ Bit(bus_rv, 1) = 0

\* the whole sequence has run at offset 7 with a byte of mixed bits
C15_Witness ==
    obs_run = [stage |-> 5, k |-> 7, v |-> 165] /\ bus_rv = 244

\* C16: queueRxBytes(ch, data, n) leaves the channel as n successive
\* queueRxByte calls would: the same FIFO contents, rx_overrun_drops,
\* xoff_sent and XOFF bytes emitted
C16_BatchEqualsSequential ==
    \A ch \in Channels, data \in BatchData :
        LET a == QueueRxBytes(Fresh(m_terms)[ch], data)
            b == QueueRxByteEach(Fresh(m_terms)[ch], data, <<1, 0>>)
        IN /\ a.rx_fifo = b.rx_fifo
           /\ a.rx_overrun_drops = b.rx_overrun_drops
           /\ a.xoff_sent = b.xoff_sent
           /\ a.xoff_sent_count = b.xoff_sent_count
           /\ a.sent = b.sent

\* the delay the text gives for attempt n
StatedDelay(n) == IF 250 * (2 ^ (IF n < 5 THEN n ELSE 5)) < 10000
                  THEN 250 * (2 ^ (IF n < 5 THEN n ELSE 5)) ELSE 10000

\* C17: the reconnect delay for attempt n is min(10000, 250 * 2^min(n, 5)) ms,
\* and after any successful open() the attempt count is 0
C17_ReconnectDelay ==
    /\ probe.n >= 0 => probe.delay = StatedDelay(probe.n)
    /\ sp.last \in {"reconnect_failed", "terminate"} /\ sp.m_reconnectAttempts > 0
          => sp.slept = StatedDelay(sp.m_reconnectAttempts - 1)
    /\ sp.last = "open_ok" => sp.m_reconnectAttempts = 0

\* a delay past the clamp has been computed and an open has succeeded
C17_Witness ==
    /\ probe.n = 6 /\ probe.delay = 8000
    /\ sp.last = "open_ok" /\ sp.fd_open /\ sp.m_reconnectAttempts = 0

\* C18: after a read error the RX worker keeps retrying open() until an open
\* succeeds or 10 attempts have been made: it gives up only when the attempt
\* count has reached 10
C18_GivesUpOnlyAtTen ==
    sp.thread = "exited" => sp.m_reconnectAttempts >= MAX_RECONNECT_ATTEMPTS

\* C19: a terminal absent at startup is retried every 30 s; at the first
\* retry after its node exists and the open succeeds a session is attached,
\* the terminal is not opened again, and every byte received from its port
\* reaches the channel's RX FIFO
C19_LateAttach ==
    /\ loop.opens <= 1
    /\ loop.pc = "opened" => dev_present /\ ~loop.session
    /\ loop.session => port_rx = rx_in[0]

\* the claim as stated: every run of sendXOFF calls, and every run of
\* sendXON calls, has put exactly one flow-control byte on the TX path
C20_AsStated ==
    /\ fc_run.kind = "xoff" /\ fc_run.prev_flag => ~fc_run.changed
    /\ fc_run.kind = "xon" /\ ~fc_run.prev_flag => ~fc_run.changed
    /\ fc_run.kind # "none" => fc_run.wire = 1

\* C20: sendXOFF while isXOFFSent() is true sends no byte and changes no
\* state, sendXON while it is false likewise; a run of consecutive sendXOFF
\* calls hands 0x13 to sendByte once if the flag was false when the run
\* began and never otherwise, a run of sendXON calls hands 0x11 to sendByte
\* once if the flag was true and never otherwise, and no run puts more than
\* one byte on the TX path
C20_FlowCallsIdempotent ==
    /\ fc_run.kind = "xoff" /\ fc_run.prev_flag => ~fc_run.changed
    /\ fc_run.kind = "xon" /\ ~fc_run.prev_flag => ~fc_run.changed
    /\ fc_run.kind = "xoff" => fc_run.handed = (IF fc_run.flag0 THEN 0 ELSE 1)
    /\ fc_run.kind = "xon" => fc_run.handed = (IF fc_run.flag0 THEN 1 ELSE 0)
    /\ fc_run.wire <= fc_run.handed

\* a run of three sendXOFF calls whose first sent the byte and whose last
\* changed nothing
C20_Witness ==
    /\ fc_run.kind = "xoff" /\ fc_run.calls = 3 /\ ~fc_run.flag0
    /\ fc_run.handed = 1 /\ fc_run.wire = 1
    /\ fc_run.prev_flag /\ ~fc_run.changed

\* C21: SerialPort::close() on an open port always returns, whatever the RX
\* worker is doing; when it has returned the worker has exited and enters
\* the RX callback no more, isOpen() is false and the TX buffer is empty
C21_CloseAlwaysReturns ==
    /\ (closing.closer = "joining") ~> (closing.closer = "returned")
    /\ [](closing.closer = "returned" =>
              /\ closing.worker = "none" /\ ~closing.late_cb
              /\ ~closing.fd /\ closing.outbuf = 0)

\* C22: sendByte and sendData never block the calling thread: when the device
\* cannot take the data at once the unwritten bytes go to the TX buffer and
\* the call returns
C22_SendNeverBlocks == txdev.caller # "blocked"

\* C23: the bytes given to sendByte and sendData reach the device in the
\* order of submission, also while earlier bytes wait in the TX buffer
C23_DeviceInSubmissionOrder ==
    \A i, j \in 1..Len(txdev.device) :
        i < j => txdev.device[i] < txdev.device[j]

\* the bytes reported to the capture callback with the given direction
CapturedAs(isRx) ==
    SelectSeq(txdev.captured, LAMBDA c : c[2] = isRx)

\* C24: with a capture callback installed every byte received and every byte
\* written to the device is reported exactly once with its direction, the
\* bytes first queued and written by flushTxBuffer included
C24_CaptureSeesEveryByte ==
    txdev.caller = "idle" =>
        /\ [i \in 1..Len(CapturedAs(FALSE)) |-> CapturedAs(FALSE)[i][1]] = txdev.device
        /\ [i \in 1..Len(CapturedAs(TRUE)) |-> CapturedAs(TRUE)[i][1]] = txdev.received

\* the least member of a set of times
Least(S) == CHOOSE x \in S : \A y \in S : x <= y

\* the deadline as stated: the minimum of the next slice, of now plus the
\* scheduler's ms (at least 1) when a timer is pending, of the last
\* statistics and the last retry plus 30 s, and of now plus 50 ms
StatedDeadline ==
    Least({mainloop.nextSlice,
           mainloop.lastStatsTime + 30000,
           mainloop.lastRetryTime + 30000,
           mainloop.now + 50}
          \cup (IF mainloop.timerMs # NoTimer
                THEN {mainloop.now + (IF mainloop.timerMs > 1
                                      THEN mainloop.timerMs ELSE 1)}
                ELSE {}))

\* C25: the wait deadline is that minimum; the loop never waits more than
\* 50 ms, and a pending timer alone never makes it wait less than 1 ms
C25_WaitDeadline ==
    mainloop.pc = "wait" =>
        /\ mainloop.deadline = StatedDeadline
        /\ mainloop.deadline - mainloop.now <= 50
        /\ (/\ mainloop.timerMs # NoTimer
            /\ mainloop.deadline < mainloop.nextSlice
            /\ mainloop.deadline < mainloop.lastStatsTime + 30000
            /\ mainloop.deadline < mainloop.lastRetryTime + 30000)
               => mainloop.deadline - mainloop.now >= 1

\* C25 witness: an overdue timer decided the deadline, 1 ms after now
C25_Witness ==
    /\ mainloop.pc = "wait" /\ mainloop.timerMs = -3
    /\ mainloop.deadline = mainloop.now + 1
    /\ mainloop.nextSlice > mainloop.now + 1

\* C26: from next_slice <= now the catch-up loop ends with next_slice > now:
\* after at most 10 advances of 30 ms when those get ahead of now, else at
\* now + 30 ms
C26_CatchupBounded ==
    /\ mainloop.pc = "catchup" => mainloop.catchupCount <= 10
    /\ (mainloop.pc = "deadline" /\ mainloop.behind) =>
           /\ mainloop.nextSlice > mainloop.now
           /\ IF mainloop.entry + 300 > mainloop.now
              THEN \E k \in 1..10 :
                       /\ mainloop.nextSlice = mainloop.entry + 30 * k
                       /\ mainloop.entry + 30 * (k - 1) <= mainloop.now
              ELSE mainloop.nextSlice = mainloop.now + 30

\* C26 witness: ten advances were not enough and the slice was clamped
C26_Witness ==
    /\ mainloop.pc = "deadline" /\ mainloop.behind
    /\ mainloop.entry + 300 = mainloop.now
    /\ mainloop.nextSlice = mainloop.now + 30

\* C27: the INI file is reloaded and a system configuration applied by the
\* main-loop thread only; a web-handler thread does neither itself
C27_OnlyMainReloadsAndApplies ==
    /\ web.reloaded_by \subseteq {"main"}
    /\ web.applied_by \subseteq {"main"}

\* C28: after SIGINT or SIGTERM the main loop leaves at the end of its
\* iteration and the post-loop cleanup (web server stopped, every session
\* unbound from the card and released) has run when the process ends with
\* exit code 0
C28_CleanupBeforeExit ==
    (shutdown.signalled /\ shutdown.exit # -1) =>
        /\ shutdown.exit = 0
        /\ ~shutdown.webServer
        /\ shutdown.mux_sessions = {} /\ shutdown.sessions = {}

\* C29: once the destructor of a SerialTermSession has returned the port's
\* RX worker does not call that session's onSerialRx, however the clearing
\* of the callback interleaves with the worker's test and call
C29_NoCallAfterDestructor ==
    /\ ~dtor.late
    /\ dtor.session = "returned" => dtor.worker = "exited"

\* C29 witness: the worker passed the test, the callback was cleared, the
\* call was made all the same, and the destructor has returned
C29_Witness ==
    /\ dtor.session = "returned" /\ dtor.stale /\ dtor.forwarded > 0

\* the selected channel ch holds XOFF with an empty FIFO and a transport
\* that takes bytes
XoffHeldEmpty(ch) ==
    /\ m_uart_sel = ch
    /\ m_terms[ch].xoff_sent /\ m_terms[ch].rx_fifo = <<>>
    /\ TransportActive(m_terms[ch])

\* C30: every read of port 0x06, the read of an empty FIFO included, emits
\* XON and clears xoff_sent when xoff_sent is set, the FIFO is at or below
\* a quarter of its capacity and a transport is active: xoff_sent does not
\* stay set with an empty FIFO and an active transport while the firmware
\* keeps reading
C30_XonAfterEveryRead ==
    \A ch \in Channels : XoffHeldEmpty(ch) ~> ~XoffHeldEmpty(ch)

\* C31: after every completed RX insertion on a channel, whatever transport
\* is bound or active, a FIFO at or above 3/4 of its capacity has xoff_sent set
C31_XoffFlagAtHighWater ==
    [][\A ch \in Channels :
           (PushOn(ch) /\ Len(m_terms'[ch].rx_fifo) >= RX_FIFO_XOFF_THRESHOLD)
               => m_terms'[ch].xoff_sent]_vars

\* C32: port 0x03 reports in bits 7:5 the offset, and port 0x02 the inverted
\* data, captured at the most recent strobeOBS or strobeCBS, also after the
\* host has deselected and selected the card at another offset; port 0x01
\* reports the current select offset in bits 7:5
C32_StrobeLatchKept ==
    /\ bus.m_obscbs_offset = bus.strobe_offset
    /\ bus.m_obscbs_data = bus.strobe_data
    /\ bus.last_in = 3 => bus_rv = bus.strobe_offset * 32
    /\ bus.last_in = 2 => bus_rv = 255 - bus.strobe_data
    /\ bus.last_in = 1 => bus_rv \div 32 = bus.m_io_offset

\* C32 witness: strobed at offset 6, selected again at offset 2, and port
\* 0x03 has just reported offset 6
C32_Witness ==
    /\ bus.last_in = 3 /\ bus_rv = 192 /\ bus.strobe_offset = 6
    /\ bus.m_selected /\ bus.m_io_offset = 2
    /\ bus.m_obs_seen

\* C33: with a host that strobes only while the card is selected and
\* device-ready is high, the assertion !obs_seen && !cbs_seen holds at the
\* entry of every strobeOBS and strobeCBS, and obs_seen and cbs_seen are
\* never both true
C33_StrobeAssertHolds ==
    /\ bus.assert_ok
    /\ ~(bus.m_obs_seen /\ bus.m_cbs_seen)

\* C34: when a channel's tx timer fires and the byte is handed over
\* (tx_ready turns true), the byte handed to the transport is the channel's
\* tx_byte of that moment, the most recently latched one
C34_TimerDeliversLatchedByte ==
    [][\A ch \in Channels :
           (~m_terms[ch].tx_ready /\ m_terms'[ch].tx_ready)
               => \A j \in TimersOf(ch) : timers[j].byte = m_terms[ch].tx_byte]_vars

\* running RX workers of the port: the one the handle refers to, and one
\* started over it
Workers ==
    (IF sp.thread = "running" THEN 1 ELSE 0)
        + (IF sp.started_over # "none" THEN 1 ELSE 0)

\* C35: at most one RX worker of a port runs at any time, and no worker is
\* started while m_receiveThread refers to a running one, a reconnect made
\* inside the worker included
C35_OneWorkerPerPort ==
    /\ Workers <= 1
    /\ sp.started_over # "running"

\* C36: every byte stopReceiving writes to the cancellation pipe is consumed
\* by the worker it was written for: no worker is ended by the pipe without
\* a stop having been asked of it, and none is left in the pipe once close()
\* has returned
C36_CancelByteConsumed ==
    /\ ~closing.stale_cancel
    /\ closing.closer = "returned" => closing.pipe = 0

\* C37: a terminal with enabled = false never has a port opened or a session
\* attached, at startup or by the retry pass
C37_DisabledNeverAttached ==
    (termcfg.pc # "config" /\ ~termcfg.enabled) =>
        (~termcfg.session /\ termcfg.opened_by = "none")

\* the data an enqueueTx can be handed: one byte or two
EnqueueData ==
    {<<a>> : a \in 1..MaxSubmit} \cup {<<a, b>> : a, b \in 1..MaxSubmit}

\* C38: getTxQueueSize() <= getTxQueueCapacity() in every state; an enqueue
\* that would exceed the capacity leaves the buffer as it was; close() and
\* flushTxQueue() return with the size at 0
C38_TxQueueBounded ==
    /\ Len(txdev.m_outbuf) <= TxQueueSize
    /\ \A data \in EnqueueData, k \in 0..1 :
           Len(txdev.m_outbuf) + Len(data) > TxQueueSize =>
               DevEnqueueTx(txdev, data, k).m_outbuf = txdev.m_outbuf
    /\ txdev.left <= 0

\* C39: after the cadence step of every iteration, now < nextSlice and
\* nextSlice <= now + 30 ms
C39_SliceWithinOneSlice ==
    mainloop.pc = "deadline" =>
        /\ mainloop.now < mainloop.nextSlice
        /\ mainloop.nextSlice <= mainloop.now + SliceDuration

\* C40: every call of requestInternalRestart() is followed by a reload in
\* the main loop that begins after the call
C40_RestartRequestServed ==
    web.unserved ~> ~web.unserved

====
